---- MODULE Spec2Model ----
(***************************************************************************)
(* Model of the limit-order book of src/src/utils/orderBook.js (class      *)
(* OrderBook), of the liquidity pools of amm.js (class AMM) and            *)
(* src/src/utils/optionsPricingModel.js (class AMMOptionsPricing) for one  *)
(* optionId, and of the services beside them.  The order book comes first; *)
(* the units and the conventions of the pools and of each service are      *)
(* given where they begin.                                                 *)
(*                                                                         *)
(* Units.  A price ARGUMENT is a number of thousandths (354 is 0.354); a   *)
(* STORED price is a number of hundredths, which is what                   *)
(* Number(price.toFixed(2)) leaves (35 is 0.35).  Quantities and filled    *)
(* amounts are numbers of tenths of a contract (10 is one contract, 4 is   *)
(* 0.4), so that Math.round and fractional market orders are visible.      *)
(* An argument that may be undefined is a sequence: <<>> is undefined and  *)
(* <<v>> is the number v.                                                  *)
(*                                                                         *)
(* The loops of matchOrders and executeMarketOrder run one iteration per   *)
(* step; pc says which loop is running and no other operation starts       *)
(* before it has returned (the code is synchronous).  The local variables  *)
(* of a loop (trades, remainingQuantity, isBuy) are reset when it returns. *)
(*                                                                         *)
(* An order id is the value of lastOrderId it was created with (the code   *)
(* wraps it in the string `order-${Date.now()}-${lastOrderId}`), so ids    *)
(* are given in the order of placement.  Left out: book.lastUpdated,       *)
(* optionDetails, the buyerId / sellerId / timestamp of a trade, and       *)
(* arguments that are not numbers where a number is expected (null, NaN).  *)
(*                                                                         *)
(* Three specifications share the operations of the order book:            *)
(*   Spec       every operation that changes the book, with regular and    *)
(*              irregular arguments (a price of 1.5, 0.4 contracts, a      *)
(*              market order for -1), up to MaxOrders stored orders;       *)
(*   SpecDeep   the same operations with regular arguments only, up to     *)
(*              MaxOrdersDeep stored orders, so that one call of           *)
(*              matchOrders can make several trades;                       *)
(*   SpecVenue  regular arguments, up to MaxOrders stored orders, and the  *)
(*              read-only query getBestExecutionVenue.                     *)
(* and three the calls of the AMM:                                         *)
(*   SpecPool   calls made one at a time: deposits and withdrawals of two  *)
(*              providers with regular and irregular amounts, quotes and   *)
(*              buys;                                                      *)
(*   SpecRace   calls made while others wait at an await: deposits,        *)
(*              withdrawals and buys in every interleaving;                *)
(*   SpecTrade  calls made one at a time: quotes and trades of either side *)
(*              at several readings of the market.                         *)
(* The services beside them have one specification each, described where   *)
(* the service begins:                                                     *)
(*   SpecAllocator   PooledLiquidity (pooledLiquidity.js) over the AMM;     *)
(*   SpecPricing     the pricing models of pricingModels.js;               *)
(*   SpecVolatility  the cache of VolatilityService (volatility.js);       *)
(*   SpecUpdater     the polling of MarketUpdater (marketUpdater.js).      *)
(***************************************************************************)
EXTENDS Integers, Sequences, FiniteSets, TLC

VARIABLES
    orders,             \* this.orders: order id -> order (ids are 1..lastOrderId)
    bids,               \* this.books[optionId].bids: sequence of order ids
    asks,               \* this.books[optionId].asks: sequence of order ids
    lastOrderId,        \* this.lastOrderId
    now,                \* the reading of Date.now()
    pc,                 \* "idle", "match" (in matchOrders), "market" (in executeMarketOrder)
    trades,             \* the local array trades of the running loop (<<>> outside)
    remainingQuantity,  \* the local remainingQuantity of the running executeMarketOrder
    isBuy,              \* the argument isBuy of the running executeMarketOrder
    ret,                \* what the last operation returned or threw
    initialized,        \* AMM.initialized
    pool,               \* AMM.liquidityPools[optionId]
    enginePool,         \* AMMOptionsPricing.liquidityPools[optionId]
    quotePool,          \* AMMOptionsPricing.liquidityPools[_getOptionId(...)]
    calls,              \* the calls of the AMM that are waiting at an await
    poolRet,            \* what the last call of the AMM returned or threw
    pooled,             \* PooledLiquidity: initialized, pool.totalLiquidity, pool.providers
    pooledCall,         \* the call of PooledLiquidity that is waiting at an await
    pooledRet,          \* what the last call of PooledLiquidity returned or threw
    pricingParams,      \* the params of the last call of a pricing model
    pricingRet,         \* what the last call of a pricing model returned
    volatilityCache,    \* VolatilityService.volatilityCache.get(marketId)
    cacheWritten,       \* bookkeeping: when the entry of the cache was set, and by a call begun when
    volCalls,           \* the calls of VolatilityService that are waiting at an await
    clock,              \* the reading of Date.now() for VolatilityService
    volRet,             \* what the last call of VolatilityService returned
    lastFetchedData,    \* MarketUpdater.lastFetchedData[marketUrl]
    isPolling,          \* MarketUpdater.isPolling[marketUrl]
    updateIntervals,    \* MarketUpdater.updateIntervals[marketUrl] is set
    chains,             \* the polling chains: one per call of startPolling
    refresh,            \* the call of forceRefresh that is waiting for its fetch
    notified,           \* the last call of the listeners: by whom and with what
    updaterRet,         \* what the last call of MarketUpdater returned or threw
    superseded          \* bookkeeping: the chains begun before the last stopPolling returned

bookVars == <<orders, bids, asks, lastOrderId, now, pc, trades, remainingQuantity, isBuy, ret>>
poolVars == <<initialized, pool, enginePool, quotePool, calls, poolRet>>
allocatorVars == <<pooled, pooledCall, pooledRet>>
pricingVars == <<pricingParams, pricingRet>>
volatilityVars == <<volatilityCache, cacheWritten, volCalls, clock, volRet>>
updaterVars == <<lastFetchedData, isPolling, updateIntervals, chains, refresh, notified,
                 updaterRet, superseded>>
serviceVars == <<allocatorVars, pricingVars, volatilityVars, updaterVars>>
besideAllocator == <<pricingVars, volatilityVars, updaterVars>>
besidePricing == <<allocatorVars, volatilityVars, updaterVars>>
besideVolatility == <<allocatorVars, pricingVars, updaterVars>>
besideUpdater == <<allocatorVars, pricingVars, volatilityVars>>
vars == <<orders, bids, asks, lastOrderId, now, pc, trades, remainingQuantity, isBuy, ret,
          initialized, pool, enginePool, quotePool, calls, poolRet, serviceVars>>

-----------------------------------------------------------------------------
(* Bounds of the model and the inputs the operations are called with.      *)

\* The orders stored under Spec and SpecVenue, and under SpecDeep.
MaxOrders == 2
MaxOrdersDeep == 3
\* The last reading of the clock.
MaxTime == 1

\* Orders are placed by u1; u1 and u2 call cancelOrder and updateOrder.
Users == {"u1", "u2"}
NoUser == ""
PlacingUsers == {"u1", NoUser}

\* The arguments <<price, quantity>> of placeOrder and updateOrder under Spec:
\* 0.354, 0.396 and 1.5 at 0.4, 1 and 2 contracts, and a missing price, a
\* quantity of 0 and a quantity of -1.
OrderInputs ==
    ({<<354>>, <<396>>, <<1500>>} \X {4, 10, 20})
        \cup {<< <<>>, 10 >>, << <<354>>, 0 >>, << <<396>>, 0 - 10 >>}
\* Under SpecDeep and SpecVenue: 0.354 and 0.396 at 1 and 2 contracts.
RegularInputs == {<<354>>, <<396>>} \X {10, 20}

\* The quantity of executeMarketOrder: -1, 1 and 3 contracts under Spec, 1 and 3
\* contracts under SpecDeep and SpecVenue.
MarketQuantityInputs == {0 - 10, 10, 30}
RegularMarketInputs == {10, 30}

\* The arguments of getBestExecutionVenue: 1 and 2 contracts, and ammPricing
\* {bidPrice, askPrice} in hundredths.
VenueQuantityInputs == {10, 20}
AmmPricingInputs == {[bidPrice |-> 33, askPrice |-> 37], [bidPrice |-> 35, askPrice |-> 40]}

-----------------------------------------------------------------------------
(* Arithmetic of the code.                                                 *)

Min(a, b) == IF a <= b THEN a ELSE b

\* Number(price.toFixed(2)): thousandths to the nearest hundredth.  Arguments
\* that end in 5 thousandths (where toFixed depends on the binary expansion)
\* are not among PriceInputs.
toFixed2(p) == IF p >= 0 THEN (p + 5) \div 10 ELSE 0 - ((5 - p) \div 10)

\* Math.round(quantity), on tenths: the nearest whole contract, halves up.
MathRound(q) == ((q + 5) \div 10) * 10

\* quantity - filled of an order
Remaining(o) == o.quantity - o.filled

-----------------------------------------------------------------------------
(* Array helpers.                                                          *)

\* orderList.shift()
Shift(s) == SubSeq(s, 2, Len(s))

\* orderList.splice(index, 1)
Splice(s, i) == SubSeq(s, 1, i - 1) \o SubSeq(s, i + 1, Len(s))

\* orderList.findIndex(o => o.id === orderId), 0 for -1
FindIndex(s, id) ==
    IF \E i \in 1..Len(s) : s[i] = id
    THEN CHOOSE i \in 1..Len(s) : s[i] = id /\ \A j \in 1..(i - 1) : s[j] # id
    ELSE 0

\* The comparators given to sort: a positive result puts b before a.
bidCompare(os, a, b) == os[b].price - os[a].price
askCompare(os, a, b) == os[a].price - os[b].price

\* One insertion of the stable sort: x goes before the first element that the
\* comparator puts after it, and after every element it compares equal to.
InsertSorted(os, s, x, isBid) ==
    LET after(i) == IF isBid THEN bidCompare(os, s[i], x) > 0
                              ELSE askCompare(os, s[i], x) > 0
        k == IF \E i \in 1..Len(s) : after(i)
             THEN CHOOSE i \in 1..Len(s) : after(i) /\ \A j \in 1..(i - 1) : ~after(j)
             ELSE Len(s) + 1
    IN  SubSeq(s, 1, k - 1) \o <<x>> \o SubSeq(s, k, Len(s))

\* Array.prototype.sort with the comparator of the side (a stable sort).
RECURSIVE Sort(_, _, _)
Sort(os, s, isBid) ==
    IF Len(s) <= 1 THEN s
    ELSE InsertSorted(os, Sort(os, SubSeq(s, 1, Len(s) - 1), isBid), s[Len(s)], isBid)

-----------------------------------------------------------------------------
(* Records of calls and results.                                           *)

Unlimited == <<>>

NoRet == [error |-> "none", orderId |-> 0, venue |-> "none", price |-> 0,
          liquidity |-> Unlimited, totalValue |-> 0, totalQuantity |-> 0, filledQuantity |-> 0]

Threw(e) == [NoRet EXCEPT !.error = e]

-----------------------------------------------------------------------------
(* placeOrder                                                              *)

\* The validation of placeOrder: TRUE when it throws 'Invalid order parameters'.
placeOrderInvalid(userId, price, quantity) ==
    userId = NoUser \/ price = <<>> \/ quantity <= 0

\* The order object placeOrder creates.
newOrder(userId, isBid, price, quantity, t) ==
    [userId |-> userId, isBid |-> isBid, price |-> toFixed2(price[1]),
     quantity |-> MathRound(quantity), timestamp |-> t, status |-> "active", filled |-> 0]

\* this.orders[orderId] = order
storeOrder(os, id, o) == [i \in (DOMAIN os) \cup {id} |-> IF i = id THEN o ELSE os[i]]

\* orderList.push(order) followed by the sort of that side.
pushAndSort(os, s, id, isBid) == Sort(os, Append(s, id), isBid)

\* placeOrder up to the call of matchOrders, on a book given by (os, bs, as).
placeOrderInsert(os, bs, as, userId, isBid, price, quantity, t) ==
    LET id == lastOrderId + 1
        os2 == storeOrder(os, id, newOrder(userId, isBid, price, quantity, t))
    IN  /\ lastOrderId' = id
        /\ orders' = os2
        /\ bids' = IF isBid THEN pushAndSort(os2, bs, id, TRUE) ELSE bs
        /\ asks' = IF isBid THEN as ELSE pushAndSort(os2, as, id, FALSE)
        /\ now' = t
        /\ trades' = <<>>
        /\ pc' = "match"
        /\ ret' = [NoRet EXCEPT !.orderId = id]

\* The readings Date.now() can give: the clock has moved on or it has not.
ClockReadings == {t \in {now, now + 1} : t <= MaxTime}

placeOrder(userId, isBid, price, quantity) ==
    /\ pc = "idle"
    /\ IF placeOrderInvalid(userId, price, quantity)
       THEN /\ ret' = Threw("InvalidOrder")
            /\ UNCHANGED <<orders, bids, asks, lastOrderId, now, pc, trades, remainingQuantity, isBuy>>
       ELSE /\ \E t \in ClockReadings :
                   placeOrderInsert(orders, bids, asks, userId, isBid, price, quantity, t)
            /\ UNCHANGED <<remainingQuantity, isBuy>>
    /\ UNCHANGED poolVars
    /\ UNCHANGED serviceVars

-----------------------------------------------------------------------------
(* matchOrders                                                             *)

\* (mutant) The test is topBid.price > topAsk.price.
matchFoundStrict ==
    /\ Len(bids) > 0
    /\ Len(asks) > 0
    /\ orders[bids[1]].price > orders[asks[1]].price

\* The condition of the while loop together with the test topBid.price >= topAsk.price.
matchFound ==
    /\ Len(bids) > 0
    /\ Len(asks) > 0
    /\ orders[bids[1]].price >= orders[asks[1]].price

\* The price of the trade: the bid's if its timestamp is smaller, else the ask's.
executionPrice(topBid, topAsk) ==
    IF topBid.timestamp < topAsk.timestamp THEN topBid.price ELSE topAsk.price

\* (mutant) The size is limited by the quantities, not by what is left of them.
tradeSizeOfQuantities(topBid, topAsk) == Min(topBid.quantity, topAsk.quantity)

\* Math.min(topBid.quantity - topBid.filled, topAsk.quantity - topAsk.filled)
tradeSize(topBid, topAsk) == Min(Remaining(topBid), Remaining(topAsk))

\* An order after filled += size, marked filled when filled >= quantity.
fill(o, size) ==
    LET f == o.filled + size
    IN  [o EXCEPT !.filled = f, !.status = IF f >= o.quantity THEN "filled" ELSE o.status]

\* One iteration of the loop that finds a crossing pair.
matchOrdersStep ==
    /\ pc = "match"
    /\ matchFound
    /\ LET b == bids[1]
           a == asks[1]
           size == tradeSize(orders[b], orders[a])
           nb == fill(orders[b], size)
           na == fill(orders[a], size)
       IN  /\ orders' = [orders EXCEPT ![b] = nb, ![a] = na]
           /\ trades' = Append(trades, [buyOrderId |-> b, sellOrderId |-> a,
                                        price |-> executionPrice(orders[b], orders[a]),
                                        quantity |-> size])
           /\ bids' = IF nb.status = "filled" THEN Shift(bids) ELSE bids
           /\ asks' = IF na.status = "filled" THEN Shift(asks) ELSE asks
    /\ UNCHANGED <<lastOrderId, now, pc, remainingQuantity, isBuy, ret>>
    /\ UNCHANGED poolVars
    /\ UNCHANGED serviceVars

\* The loop ends (a side is empty or the tops do not cross) and placeOrder returns.
matchOrdersReturn ==
    /\ pc = "match"
    /\ ~matchFound
    /\ pc' = "idle"
    /\ trades' = <<>>
    /\ UNCHANGED <<orders, bids, asks, lastOrderId, now, remainingQuantity, isBuy, ret>>
    /\ UNCHANGED poolVars
    /\ UNCHANGED serviceVars

-----------------------------------------------------------------------------
(* cancelOrder                                                             *)

OrderIdInputs == 1..MaxOrders

\* (mutant) The status of the order is not looked at.
cancelErrorNoState(os, orderId, userId) ==
    IF orderId \notin DOMAIN os THEN "NotFound"
    ELSE IF os[orderId].userId # userId THEN "Unauthorized"
    ELSE "none"

\* (mutant) The owner of the order is not looked at.
cancelErrorNoOwner(os, orderId, userId) ==
    IF orderId \notin DOMAIN os THEN "NotFound"
    ELSE IF os[orderId].status # "active" THEN "InvalidState"
    ELSE "none"

\* The three throws of cancelOrder, in the order of the code; "none" when it goes on.
cancelError(os, orderId, userId) ==
    IF orderId \notin DOMAIN os THEN "NotFound"
    ELSE IF os[orderId].userId # userId THEN "Unauthorized"
    ELSE IF os[orderId].status # "active" THEN "InvalidState"
    ELSE "none"

\* order.status = 'cancelled'
cancelMark(os, orderId) == [os EXCEPT ![orderId].status = "cancelled"]

\* findIndex and splice on the order's side of the book.
cancelRemove(s, orderId) ==
    LET index == FindIndex(s, orderId)
    IN  IF index # 0 THEN Splice(s, index) ELSE s

cancelOrder(orderId, userId) ==
    /\ pc = "idle"
    /\ LET e == cancelError(orders, orderId, userId)
       IN  IF e # "none"
           THEN /\ ret' = Threw(e)
                /\ UNCHANGED <<orders, bids, asks>>
           ELSE /\ orders' = cancelMark(orders, orderId)
                /\ bids' = IF orders[orderId].isBid THEN cancelRemove(bids, orderId) ELSE bids
                /\ asks' = IF orders[orderId].isBid THEN asks ELSE cancelRemove(asks, orderId)
                /\ ret' = [NoRet EXCEPT !.orderId = orderId]
    /\ UNCHANGED <<lastOrderId, now, pc, trades, remainingQuantity, isBuy>>
    /\ UNCHANGED poolVars
    /\ UNCHANGED serviceVars

-----------------------------------------------------------------------------
(* updateOrder: cancelOrder, then placeOrder with the old order's side.    *)

updateOrder(orderId, userId, newPrice, newQuantity) ==
    /\ pc = "idle"
    /\ LET e == cancelError(orders, orderId, userId)
       IN  IF e # "none"
           THEN /\ ret' = Threw(e)
                /\ UNCHANGED <<orders, bids, asks, lastOrderId, now, pc, trades>>
           ELSE LET oldOrder == orders[orderId]
                    os1 == cancelMark(orders, orderId)
                    bs1 == IF oldOrder.isBid THEN cancelRemove(bids, orderId) ELSE bids
                    as1 == IF oldOrder.isBid THEN asks ELSE cancelRemove(asks, orderId)
                IN  IF placeOrderInvalid(userId, newPrice, newQuantity)
                    THEN /\ orders' = os1
                         /\ bids' = bs1
                         /\ asks' = as1
                         /\ ret' = Threw("InvalidOrder")
                         /\ UNCHANGED <<lastOrderId, now, pc, trades>>
                    ELSE \E t \in ClockReadings :
                                placeOrderInsert(os1, bs1, as1, userId, oldOrder.isBid,
                                                 newPrice, newQuantity, t)
    /\ UNCHANGED <<remainingQuantity, isBuy>>
    /\ UNCHANGED poolVars
    /\ UNCHANGED serviceVars

-----------------------------------------------------------------------------
(* executeMarketOrder                                                      *)

\* orderList.reduce((sum, order) => sum + (order.quantity - order.filled), 0)
RECURSIVE availableQuantity(_, _)
availableQuantity(os, s) ==
    IF s = <<>> THEN 0 ELSE Remaining(os[s[1]]) + availableQuantity(os, Shift(s))

\* trades.reduce((sum, trade) => sum + trade.quantity, 0)
RECURSIVE totalQuantity(_)
totalQuantity(ts) == IF ts = <<>> THEN 0 ELSE ts[1].quantity + totalQuantity(Shift(ts))

\* trades.reduce((sum, trade) => sum + trade.total, 0), trade.total being price * quantity
RECURSIVE totalValue(_)
totalValue(ts) ==
    IF ts = <<>> THEN 0 ELSE ts[1].price * ts[1].quantity + totalValue(Shift(ts))

\* The side a market order executes against.
orderList(buy) == IF buy THEN asks ELSE bids

\* (mutant) The check is only that the side has an order.
insufficientWhenEmpty(buy, quantity) == Len(orderList(buy)) = 0

\* The liquidity check: TRUE when the call throws 'Insufficient liquidity for market order'.
insufficientLiquidity(buy, quantity) == availableQuantity(orders, orderList(buy)) < quantity

\* The call up to the loop.
executeMarketOrder(buy, quantity) ==
    /\ pc = "idle"
    /\ IF insufficientLiquidity(buy, quantity)
       THEN /\ ret' = Threw("InsufficientLiquidity")
            /\ UNCHANGED <<pc, trades, remainingQuantity, isBuy>>
       ELSE /\ pc' = "market"
            /\ trades' = <<>>
            /\ remainingQuantity' = quantity
            /\ isBuy' = buy
            /\ ret' = [NoRet EXCEPT !.totalQuantity = quantity]
    /\ UNCHANGED <<orders, bids, asks, lastOrderId, now>>
    /\ UNCHANGED poolVars
    /\ UNCHANGED serviceVars

\* The condition of the while loop of executeMarketOrder.
marketLoop == remainingQuantity > 0 /\ Len(orderList(isBuy)) > 0

fillAmount(left, counterpartyOrder) == Min(left, Remaining(counterpartyOrder))

\* One iteration: fill the first order of the list.
executeMarketOrderStep ==
    /\ pc = "market"
    /\ marketLoop
    /\ LET c == orderList(isBuy)[1]
           amount == fillAmount(remainingQuantity, orders[c])
           nc == fill(orders[c], amount)
           rest == IF nc.status = "filled" THEN Shift(orderList(isBuy)) ELSE orderList(isBuy)
       IN  /\ trades' = Append(trades, [buyOrderId |-> IF isBuy THEN 0 ELSE c,
                                        sellOrderId |-> IF isBuy THEN c ELSE 0,
                                        price |-> orders[c].price, quantity |-> amount])
           /\ orders' = [orders EXCEPT ![c] = nc]
           /\ asks' = IF isBuy THEN rest ELSE asks
           /\ bids' = IF isBuy THEN bids ELSE rest
           /\ remainingQuantity' = remainingQuantity - amount
    /\ UNCHANGED <<lastOrderId, now, pc, isBuy, ret>>
    /\ UNCHANGED poolVars
    /\ UNCHANGED serviceVars

\* The loop has ended: the totals are computed and returned.  averagePrice is
\* totalValue / filledQuantity (0 / 0, NaN, when there is no trade).
executeMarketOrderReturn ==
    /\ pc = "market"
    /\ ~marketLoop
    /\ pc' = "idle"
    /\ ret' = [ret EXCEPT !.totalValue = totalValue(trades),
                          !.filledQuantity = totalQuantity(trades)]
    /\ trades' = <<>>
    /\ remainingQuantity' = 0
    /\ isBuy' = FALSE
    /\ UNCHANGED <<orders, bids, asks, lastOrderId, now>>
    /\ UNCHANGED poolVars
    /\ UNCHANGED serviceVars

-----------------------------------------------------------------------------
(* getOrderBookState, getAvailableLiquidityAtPrice, getBestExecutionVenue  *)

\* The keys of priceLevels: the prices of the active orders of the list.  A
\* stored price has two decimals already, so Number(order.price.toFixed(2)) is
\* the stored price.
levelPrices(os, s) == {os[s[i]].price : i \in {j \in 1..Len(s) : os[s[j]].status = "active"}}

\* The entry of priceLevels at one price: the remaining quantity and the number
\* of the active orders at that price.
RECURSIVE levelQuantity(_, _, _)
levelQuantity(os, s, price) ==
    IF s = <<>> THEN 0
    ELSE (IF os[s[1]].status = "active" /\ os[s[1]].price = price
          THEN Remaining(os[s[1]]) ELSE 0) + levelQuantity(os, Shift(s), price)

levelCount(os, s, price) ==
    Cardinality({i \in 1..Len(s) : os[s[i]].status = "active" /\ os[s[i]].price = price})

\* result.sort((a, b) => b.price - a.price): the levels by descending price.
RECURSIVE sortDescending(_)
sortDescending(prices) ==
    IF prices = {} THEN <<>>
    ELSE LET top == CHOOSE x \in prices : \A y \in prices : y <= x
         IN  <<top>> \o sortDescending(prices \ {top})

aggregatePriceLevels(os, s) ==
    LET sorted == sortDescending(levelPrices(os, s))
    IN  [i \in 1..Len(sorted) |->
            [price |-> sorted[i],
             quantity |-> levelQuantity(os, s, sorted[i]),
             orderCount |-> levelCount(os, s, sorted[i])]]

\* getOrderBookState without lastUpdated and midPrice.
getOrderBookState ==
    LET bidLevels == aggregatePriceLevels(orders, bids)
        askLevels == aggregatePriceLevels(orders, asks)
        bestBid == IF Len(bidLevels) > 0 THEN bidLevels[1].price ELSE 0
        bestAsk == IF Len(askLevels) > 0 THEN askLevels[1].price ELSE 0
    IN  [bids |-> bidLevels, asks |-> askLevels, bestBid |-> bestBid, bestAsk |-> bestAsk,
         spread |-> IF bestBid > 0 /\ bestAsk > 0 THEN bestAsk - bestBid ELSE 0,
         depth |-> [bids |-> Len(bids), asks |-> Len(asks)]]

RECURSIVE liquidityAtPrice(_, _, _, _)
liquidityAtPrice(os, s, isBid, targetPrice) ==
    IF s = <<>> THEN 0
    ELSE LET order == os[s[1]]
             priceIsGood == IF isBid THEN order.price >= targetPrice
                                     ELSE order.price <= targetPrice
         IN  (IF order.status = "active" /\ priceIsGood THEN Remaining(order) ELSE 0)
                 + liquidityAtPrice(os, Shift(s), isBid, targetPrice)

getAvailableLiquidityAtPrice(isBid, targetPrice) ==
    liquidityAtPrice(orders, IF isBid THEN bids ELSE asks, isBid, targetPrice)

venueAmm(price) == [NoRet EXCEPT !.venue = "amm", !.price = price, !.liquidity = Unlimited]

getBestExecutionVenue(buy, quantity, ammPricing) ==
    LET orderBookState == getOrderBookState
        ammPrice == IF buy THEN ammPricing.askPrice ELSE ammPricing.bidPrice
        orderBookPrice == IF buy THEN orderBookState.bestAsk ELSE orderBookState.bestBid
        available == getAvailableLiquidityAtPrice(~buy, orderBookPrice)
        useOrderBook == IF buy THEN orderBookPrice <= ammPrice ELSE orderBookPrice >= ammPrice
    IN  IF (buy /\ Len(asks) = 0) \/ (~buy /\ Len(bids) = 0) THEN venueAmm(ammPrice)
        ELSE IF available < quantity THEN venueAmm(ammPrice)
        ELSE IF useOrderBook
             THEN [NoRet EXCEPT !.venue = "orderbook", !.price = orderBookPrice,
                                !.liquidity = <<available>>]
             ELSE venueAmm(ammPrice)

\* A call of getBestExecutionVenue: it returns and changes nothing.
GetBestExecutionVenue(buy, quantity, ammPricing) ==
    /\ pc = "idle"
    /\ ret' = getBestExecutionVenue(buy, quantity, ammPricing)
    /\ UNCHANGED <<orders, bids, asks, lastOrderId, now, pc, trades, remainingQuantity, isBuy>>
    /\ UNCHANGED poolVars
    /\ UNCHANGED serviceVars

-----------------------------------------------------------------------------
(* The liquidity pool of one contract: class AMM (amm.js) and the pricing   *)
(* engine behind it, class AMMOptionsPricing (optionsPricingModel.js).      *)
(*                                                                         *)
(* The AMM keeps its pool under the optionId it is called with and passes  *)
(* that optionId on to the engine's addLiquidity, removeLiquidity and      *)
(* executeTrade, so the engine keeps a second pool under the same key      *)
(* (enginePool).  The engine's calculatePrice derives a key of its own,    *)
(* `${marketId}-${strike}-${type}-${expiryStr}`, which is not the optionId *)
(* the callers build (`${strike}-${type}-${expiry}`): the pool it creates, *)
(* reads and updates is a third one (quotePool), which no liquidity or     *)
(* volume ever reaches.                                                    *)
(*                                                                         *)
(* Every method of the AMM is an async function.  A call runs from one     *)
(* await to the next in one step; the calls that are waiting at an await   *)
(* are in `calls`, and any of them may be the next to resume.  The engine  *)
(* is reached through the AMM only, whose initialize() has initialised the *)
(* engine before any of the engine's methods runs, so the engine's own     *)
(* `await this.initialize()` is never taken.                               *)
(*                                                                         *)
(* Units.  Liquidity and trade amounts are whole units.  A price, a        *)
(* spread, a liquidity factor and a liquidity depth are numbers of         *)
(* 0.00001 (100000 is 1); a product or quotient is rounded down to that    *)
(* unit.  A time to expiry is a number of thousandths of a year.           *)
(* Left out: lastUpdate, created, k, the midPrice / bidPrice / askPrice    *)
(* copies and the providers' entryPrice and lastDeposit in the engine's    *)
(* pool, calculateImpermanentLoss (it is awaited, reads the pool and       *)
(* changes nothing), and the catch blocks that no input of the model       *)
(* reaches (they need an optionDetails that is not an object).             *)

\* const MIN_LIQUIDITY = 1000
MIN_LIQUIDITY == 1000

Max(a, b) == IF a >= b THEN a ELSE b

Providers == {"p1", "p2"}

\* The slots for calls in progress, and the most liquidity a pool is given.
MaxCalls == 2
MaxLiquidity == 1800
Calls == 1..MaxCalls

\* The amounts addLiquidity and removeLiquidity are called with.
AddAmountInputs == {400, 0, 0 - 1200}
RemoveAmountInputs == {400, 800}

\* The optionDetails the calls pass: one contract (a call with strike 0.01
\* that expires in 0.6 years) at two readings of the market probability and
\* two liquidity factors.  price is the display price the AMM seeds its pool with.
DetailsInputs ==
    {[price |-> 90000, currentPrice |-> 2000, strike |-> 1000, timeToExpiry |-> 600,
      type |-> "call", liquidityFactor |-> 10000],
     [price |-> 90000, currentPrice |-> 99000, strike |-> 1000, timeToExpiry |-> 600,
      type |-> "call", liquidityFactor |-> 10000],
     [price |-> 90000, currentPrice |-> 99000, strike |-> 1000, timeToExpiry |-> 600,
      type |-> "call", liquidityFactor |-> 0]}

NoDetails == CHOOSE d \in DetailsInputs : d.currentPrice = 2000

\* A pool that does not exist (liquidityPools[optionId] is undefined).
NoPool == <<>>

\* delete providers[provider]
Delete(f, x) == [y \in (DOMAIN f) \ {x} |-> f[y]]
\* providers[provider] = v
Put(f, x, v) == [y \in (DOMAIN f) \cup {x} |-> IF y = x THEN v ELSE f[y]]

\* An empty slot, and what a call returns: the fields of a quote and of a
\* trade, 0 where the call returns no such field.
NoQuote == [midPrice |-> 0, bidPrice |-> 0, askPrice |-> 0]
NoPoolRet ==
    [op |-> "none", error |-> "none", amount |-> 0, bidPrice |-> 0, askPrice |-> 0,
     price |-> 0, executionPrice |-> 0, priceImpact |-> 0, fee |-> 0]
NoCall ==
    [op |-> "none", pc |-> "none", provider |-> "", amount |-> 0, withDetails |-> FALSE,
     details |-> NoDetails, isBuy |-> FALSE, engineThrew |-> FALSE, quote |-> NoQuote,
     result |-> NoPoolRet]

PoolThrew(op, e) == [NoPoolRet EXCEPT !.op = op, !.error = e]

\* The call in slot c returns (or throws) r.
Return(c, r) ==
    /\ calls' = [calls EXCEPT ![c] = NoCall]
    /\ poolRet' = r

\* The call in slot c waits at an await, to resume at `at`.
Await(c, call, at) == calls' = [calls EXCEPT ![c] = [call EXCEPT !.pc = at]]

-----------------------------------------------------------------------------
(* Pools.                                                                  *)

\* AMM.initializeLiquidityPool: the pool as it is, or a new one.
initializeLiquidityPool(p, initialPrice) ==
    IF p # NoPool THEN p
    ELSE [price |-> initialPrice, totalLiquidity |-> 1000, buyVolume |-> 0, sellVolume |-> 0,
          providers |-> <<>>]

\* AMMOptionsPricing._calculateInitialPrice
_calculateInitialPrice(details) ==
    IF details.type = "call"
    THEN Max(1000, Min(99000, (details.currentPrice - details.strike) + 50000))
    ELSE Max(1000, Min(99000, (details.strike - details.currentPrice) + 50000))

\* AMMOptionsPricing._initializePool
_initializePool(initialPrice) ==
    [price |-> initialPrice, totalLiquidity |-> MIN_LIQUIDITY, buyVolume |-> 0,
     sellVolume |-> 0, providers |-> <<>>]

\* AMMOptionsPricing._getOrCreatePool
_getOrCreatePool(p, details) ==
    IF p = NoPool THEN _initializePool(_calculateInitialPrice(details)) ELSE p

\* pool.totalLiquidity || MIN_LIQUIDITY
OrMinLiquidity(totalLiquidity) == IF totalLiquidity = 0 THEN MIN_LIQUIDITY ELSE totalLiquidity

\* What a pool holds in all and for one provider (the seed and nothing when
\* the pool or the entry does not exist).
TotalOf(p) == IF p = NoPool THEN MIN_LIQUIDITY ELSE p.totalLiquidity
HeldIn(p, provider) ==
    IF p = NoPool THEN 0
    ELSE IF provider \in DOMAIN p.providers THEN p.providers[provider] ELSE 0

-----------------------------------------------------------------------------
(* addLiquidity                                                            *)

\* AMMOptionsPricing.addLiquidity on the engine's pool ep: it runs to its
\* return without an await.
engineAddLiquidity(ep, provider, amount, details) ==
    LET p1 == _getOrCreatePool(ep, details)
        held == IF provider \in DOMAIN p1.providers THEN p1.providers[provider] ELSE 0
    IN  [p1 EXCEPT !.providers = Put(@, provider, held + amount),
                   !.totalLiquidity = OrMinLiquidity(@) + amount]

\* The update of the AMM's own pool after the engine's call (lines 551-557; the
\* catch block does the same).
ammAddLiquidity(p, provider, amount) ==
    LET held == IF provider \in DOMAIN p.providers THEN p.providers[provider] ELSE 0
    IN  [p EXCEPT !.providers = Put(@, provider, held + amount),
                  !.totalLiquidity = @ + amount]

\* AMM.addLiquidity from its first statement after initialisation to the await
\* of the engine's addLiquidity.
addLiquidityBody(c, call) ==
    /\ pool' = initializeLiquidityPool(pool, call.details.price)
    /\ enginePool' = engineAddLiquidity(enginePool, call.provider, call.amount, call.details)
    /\ Await(c, call, "add")
    /\ UNCHANGED <<quotePool, poolRet>>

\* The engine's call has resolved: the AMM updates its pool and returns.
addLiquidityResume(c) ==
    /\ calls[c].pc = "add"
    /\ pool' = ammAddLiquidity(pool, calls[c].provider, calls[c].amount)
    /\ Return(c, [NoPoolRet EXCEPT !.op = "addLiquidity"])
    /\ UNCHANGED <<initialized, enginePool, quotePool>>
    /\ UNCHANGED bookVars
    /\ UNCHANGED serviceVars

-----------------------------------------------------------------------------
(* removeLiquidity                                                         *)

\* The test of AMM.removeLiquidity: !pool.providers[provider] ||
\* pool.providers[provider] < amount.  The mutant reads only the first half.
ammInsufficientNoEntry(p, provider, amount) ==
    provider \notin DOMAIN p.providers

ammInsufficient(p, provider, amount) ==
    \/ provider \notin DOMAIN p.providers
    \/ p.providers[provider] = 0
    \/ p.providers[provider] < amount

\* The tests of AMMOptionsPricing.removeLiquidity: the pool does not exist, or
\* the provider has no entry or less than the amount.
engineInsufficient(ep, provider, amount) ==
    \/ ep = NoPool
    \/ provider \notin DOMAIN ep.providers
    \/ ep.providers[provider] < amount

\* The engine's update (lines 291-301).
engineRemoveLiquidity(ep, provider, amount) ==
    LET left == ep.providers[provider] - amount
    IN  [ep EXCEPT !.providers = IF left <= 0 THEN Delete(@, provider) ELSE Put(@, provider, left),
                   !.totalLiquidity = Max(MIN_LIQUIDITY, @ - amount)]

\* The AMM's update (lines 616-617; the catch block does the same).
ammRemoveLiquidity(p, provider, amount) ==
    [p EXCEPT !.providers[provider] = @ - amount, !.totalLiquidity = @ - amount]

removeLiquidityReturn(c) == Return(c, [NoPoolRet EXCEPT !.op = "removeLiquidity"])

\* AMM.removeLiquidity from its first statement after initialisation to its
\* first await, or to its return when it is called without optionDetails.
removeLiquidityBody(c, call) ==
    IF pool = NoPool
    THEN /\ Return(c, PoolThrew("removeLiquidity", "NoPool"))
         /\ UNCHANGED <<pool, enginePool, quotePool>>
    ELSE IF ammInsufficient(pool, call.provider, call.amount)
    THEN /\ Return(c, PoolThrew("removeLiquidity", "InsufficientLiquidity"))
         /\ UNCHANGED <<pool, enginePool, quotePool>>
    ELSE IF ~call.withDetails
    THEN /\ pool' = ammRemoveLiquidity(pool, call.provider, call.amount)
         /\ removeLiquidityReturn(c)
         /\ UNCHANGED <<enginePool, quotePool>>
    ELSE IF engineInsufficient(enginePool, call.provider, call.amount)
    THEN \* the engine throws; the AMM's await hands the error to its catch block
         /\ Await(c, [call EXCEPT !.engineThrew = TRUE], "remove")
         /\ UNCHANGED <<pool, enginePool, quotePool, poolRet>>
    ELSE IF enginePool.providers[call.provider] = call.amount
    THEN \* the engine awaits calculateImpermanentLoss before its update
         /\ Await(c, call, "engineRemove")
         /\ UNCHANGED <<pool, enginePool, quotePool, poolRet>>
    ELSE /\ enginePool' = engineRemoveLiquidity(enginePool, call.provider, call.amount)
         /\ Await(c, call, "remove")
         /\ UNCHANGED <<pool, quotePool, poolRet>>

\* The engine resumes after calculateImpermanentLoss: its update, which throws
\* a TypeError when the provider's entry has been deleted in the meantime.
removeLiquidityEngineResume(c) ==
    /\ calls[c].pc = "engineRemove"
    /\ IF calls[c].provider \in DOMAIN enginePool.providers
       THEN /\ enginePool' = engineRemoveLiquidity(enginePool, calls[c].provider, calls[c].amount)
            /\ Await(c, calls[c], "remove")
       ELSE /\ Await(c, [calls[c] EXCEPT !.engineThrew = TRUE], "remove")
            /\ UNCHANGED enginePool
    /\ UNCHANGED <<initialized, pool, quotePool, poolRet>>
    /\ UNCHANGED bookVars
    /\ UNCHANGED serviceVars

\* The engine's call has resolved or thrown: the AMM updates its pool either
\* way ("Proceed with removal even if AMM model fails") and returns.
removeLiquidityResume(c) ==
    /\ calls[c].pc = "remove"
    /\ pool' = ammRemoveLiquidity(pool, calls[c].provider, calls[c].amount)
    /\ removeLiquidityReturn(c)
    /\ UNCHANGED <<initialized, enginePool, quotePool>>
    /\ UNCHANGED bookVars
    /\ UNCHANGED serviceVars

-----------------------------------------------------------------------------
(* Quotes: AMMOptionsPricing.calculatePrice and AMM.getPrice                *)

\* a / b of two numbers, rounded towards zero (b is not 0).
Div(a, b) ==
    IF b > 0 THEN (IF a >= 0 THEN a \div b ELSE 0 - ((0 - a) \div b))
    ELSE (IF a >= 0 THEN 0 - (a \div (0 - b)) ELSE (0 - a) \div (0 - b))

Abs(a) == IF a >= 0 THEN a ELSE 0 - a

\* price * factor for a factor in units of 0.00001, in two parts so that no
\* intermediate product leaves the range of the integers of the checker.
Scale(price, factor) ==
    LET high == Div(factor, 1000)
        low == factor - high * 1000
    IN  Div(price * high * 10 + Div(price * low, 100), 1000)

\* AMMOptionsPricing._calculateImpliedVolatility with the global volatility
\* factor 1 of the constructor.
_calculateImpliedVolatility(currentPrice, strike, timeToExpiry) ==
    LET base == 65000
        moneyness == Abs(currentPrice - strike)
        skewed == base + ((base \div 100) * moneyness) \div 1000
        timed == IF timeToExpiry < 100 THEN (skewed * 12) \div 10
                 ELSE IF timeToExpiry > 500 THEN (skewed * 8) \div 10
                 ELSE skewed
    IN  Min(150000, Max(20000, timed))

\* normCDF(d2) of _calculateTheoretical for the inputs of the model, evaluated
\* from lines 509-530 (d1, d2 and the rational approximation of the normal
\* distribution): 0.9551209 at a probability of 0.02 and 0.99999998 at 0.99,
\* for the strike 0.01, 0.6 years and the volatilities 0.5252 and 1.0296.
normCDFd2(currentPrice, strike, timeToExpiry, volatility) ==
    IF currentPrice = 2000 /\ strike = 1000 /\ timeToExpiry = 600 /\ volatility = 52520
    THEN 95512
    ELSE IF currentPrice = 99000 /\ strike = 1000 /\ timeToExpiry = 600 /\ volatility = 102960
    THEN 100000
    ELSE 50000

\* AMMOptionsPricing._calculateTheoretical
_calculateTheoretical(currentPrice, strike, timeToExpiry, volatility, type) ==
    LET atExpiry == IF type = "call"
                    THEN (IF currentPrice > strike THEN 100000 ELSE 0)
                    ELSE (IF currentPrice < strike THEN 100000 ELSE 0)
        inTheMoney == normCDFd2(currentPrice, strike, timeToExpiry, volatility)
    IN  IF timeToExpiry <= 0 THEN atExpiry
        ELSE IF volatility <= 0 THEN atExpiry
        ELSE IF type = "call" THEN inTheMoney
        ELSE 100000 - inTheMoney

\* AMMOptionsPricing._calculateLiquidityDepth
_calculateLiquidityDepth(qp, liquidityFactor) ==
    IF qp = NoPool THEN 50000
    ELSE LET totalLiquidity == OrMinLiquidity(qp.totalLiquidity)
             totalVolume == qp.buyVolume + qp.sellVolume
             internalLiquidityScore == Min(100000, totalLiquidity * 10)
             volumeScore == Min(100000, totalVolume * 10)
         IN  Div(7 * (100000 - liquidityFactor), 10) + Div(2 * internalLiquidityScore, 10)
                 + Div(volumeScore, 10)

\* AMMOptionsPricing._calculateSpread (the second test of the time to expiry
\* is never reached: whatever is below 0.05 is below 0.1).
_calculateSpread(price, liquidityDepth, timeToExpiry) ==
    LET base == Div(5 * (100000 - liquidityDepth), 100)
        timed == IF timeToExpiry < 100 THEN Div(base * 3, 2)
                 ELSE IF timeToExpiry < 50 THEN base * 2
                 ELSE IF timeToExpiry > 500 THEN Div(base * 8, 10)
                 ELSE base
        spread == IF price < 10000 \/ price > 90000 THEN Div(timed * 3, 2) ELSE timed
    IN  Min(20000, Max(1000, spread))

\* AMMOptionsPricing._updatePoolState
_updatePoolState(qp, midPrice) == [qp EXCEPT !.price = midPrice]

\* The pool calculatePrice works on: the one under its derived key, created
\* with the current probability as its price when it does not exist.
calculatePricePool(qp, details) ==
    IF qp = NoPool THEN _initializePool(details.currentPrice) ELSE qp

\* What AMMOptionsPricing.calculatePrice returns for the optionDetails it is
\* given, on the pool qp under its derived key.
calculatePrice(qp, details) ==
    LET volatility == _calculateImpliedVolatility(details.currentPrice, details.strike,
                                                  details.timeToExpiry)
        fairValue == _calculateTheoretical(details.currentPrice, details.strike,
                                           details.timeToExpiry, volatility, details.type)
        liquidityDepth == _calculateLiquidityDepth(calculatePricePool(qp, details),
                                                   details.liquidityFactor)
        halfSpread == Div(_calculateSpread(fairValue, liquidityDepth, details.timeToExpiry), 2)
    IN  [midPrice |-> fairValue,
         bidPrice |-> Max(1000, fairValue - halfSpread),
         askPrice |-> Min(99000, fairValue + halfSpread)]

\* The pool under the derived key after calculatePrice.
calculatePriceUpdate(qp, details) ==
    _updatePoolState(calculatePricePool(qp, details), calculatePrice(qp, details).midPrice)

\* AMM.calculateLiquidityFactor
calculateLiquidityFactor(p) ==
    LET volumeScore == Min(100000, (p.buyVolume + p.sellVolume) * 10)
        depthScore == Min(100000, p.totalLiquidity)
    IN  Max(0, 100000 - Div(volumeScore + depthScore, 2))

\* AMM.getPrice from its first statement after initialisation to the await of
\* the engine's calculatePrice, which has run to its return.
getPriceBody(c, call) ==
    LET p1 == initializeLiquidityPool(pool, call.details.price)
        enhancedDetails == [call.details EXCEPT !.liquidityFactor = calculateLiquidityFactor(p1)]
    IN  /\ pool' = p1
        /\ quotePool' = calculatePriceUpdate(quotePool, enhancedDetails)
        /\ Await(c, [call EXCEPT !.quote = calculatePrice(quotePool, enhancedDetails)], "price")
        /\ UNCHANGED <<enginePool, poolRet>>

\* The engine's quote has resolved: the AMM takes its mid price as the price
\* of its pool and returns the bid and the ask.
getPriceResume(c) ==
    /\ calls[c].pc = "price"
    /\ pool' = [pool EXCEPT !.price = calls[c].quote.midPrice]
    /\ Return(c, [NoPoolRet EXCEPT !.op = "getPrice", !.bidPrice = calls[c].quote.bidPrice,
                                   !.askPrice = calls[c].quote.askPrice])
    /\ UNCHANGED <<initialized, enginePool, quotePool>>
    /\ UNCHANGED bookVars
    /\ UNCHANGED serviceVars

-----------------------------------------------------------------------------
(* executeTrade                                                            *)

\* const TOTAL_FEE_PERCENT = LP_FEE_PERCENT + PROTOCOL_FEE_PERCENT, in
\* thousandths: 0.003 + 0.001.
TOTAL_FEE_PERCENT == 4

\* The amounts executeTrade is called with, and the most volume a pool is given.
TradeAmountInputs == {40, 100}
MaxVolume == 100

\* The fee of the engine's executeTrade (line 156), on the price it is given.
tradeFee(amount, price) == Div(amount * price * TOTAL_FEE_PERCENT, 1000)

\* Lines 159-161: the price impact of an amount on the engine's pool.
priceImpact(ep, amount) ==
    Min(15000, Div(amount * 200000, OrMinLiquidity(ep.totalLiquidity)))

\* Lines 164-166.
tradeExecutionPrice(buy, quote, impact) ==
    IF buy THEN quote.askPrice + Scale(quote.askPrice, impact)
           ELSE quote.bidPrice - Scale(quote.bidPrice, impact)

\* Lines 169-177: the engine's pool after the trade.
engineTradeUpdate(ep, buy, amount, quote, impact) ==
    IF buy
    THEN [ep EXCEPT !.buyVolume = @ + amount,
                    !.price = Min(99000, quote.midPrice + Scale(quote.midPrice, impact))]
    ELSE [ep EXCEPT !.sellVolume = @ + amount,
                    !.price = Max(1000, quote.midPrice - Scale(quote.midPrice, impact))]

\* What the engine's executeTrade returns (lines 183-191), the price impact as
\* a percentage.
engineTradeResult(ep, buy, amount, quote) ==
    LET quoted == IF buy THEN quote.askPrice ELSE quote.bidPrice
        impact == priceImpact(ep, amount)
    IN  [NoPoolRet EXCEPT !.op = "executeTrade", !.amount = amount,
                          !.bidPrice = quote.bidPrice, !.askPrice = quote.askPrice,
                          !.price = quoted,
                          !.executionPrice = tradeExecutionPrice(buy, quote, impact),
                          !.priceImpact = impact * 100,
                          !.fee = tradeFee(amount, quoted)]

\* AMM.executeTrade from its first statement after initialisation to the
\* engine's await of calculatePrice, which has run to its return.
executeTradeBody(c, call) ==
    /\ pool' = initializeLiquidityPool(pool, call.details.price)
    /\ enginePool' = _getOrCreatePool(enginePool, call.details)
    /\ quotePool' = calculatePriceUpdate(quotePool, call.details)
    /\ Await(c, [call EXCEPT !.quote = calculatePrice(quotePool, call.details)], "engineTrade")
    /\ UNCHANGED poolRet

\* The engine resumes with the quote: fee, price impact, execution price and
\* the update of its pool; the AMM awaits the result.
executeTradeEngineResume(c) ==
    /\ calls[c].pc = "engineTrade"
    /\ LET call == calls[c]
           impact == priceImpact(enginePool, call.amount)
       IN  /\ enginePool' = engineTradeUpdate(enginePool, call.isBuy, call.amount, call.quote, impact)
           /\ Await(c, [call EXCEPT !.result = engineTradeResult(enginePool, call.isBuy,
                                                                 call.amount, call.quote)],
                    "trade")
    /\ UNCHANGED <<initialized, pool, quotePool, poolRet>>
    /\ UNCHANGED bookVars
    /\ UNCHANGED serviceVars

\* The engine's trade has resolved: the AMM adds the volume, takes the quoted
\* price as the price of its pool and returns.
executeTradeResume(c) ==
    /\ calls[c].pc = "trade"
    /\ LET call == calls[c]
       IN  /\ pool' = IF call.isBuy
                      THEN [pool EXCEPT !.buyVolume = @ + call.amount, !.price = call.result.price]
                      ELSE [pool EXCEPT !.sellVolume = @ + call.amount, !.price = call.result.price]
           /\ Return(c, [NoPoolRet EXCEPT !.op = "executeTrade", !.amount = call.amount,
                                          !.price = call.result.price,
                                          !.priceImpact = call.result.priceImpact,
                                          !.fee = call.result.fee])
    /\ UNCHANGED <<initialized, enginePool, quotePool>>
    /\ UNCHANGED bookVars
    /\ UNCHANGED serviceVars

-----------------------------------------------------------------------------
(* The calls of the AMM.                                                   *)

\* No call of the AMM is in progress.
Quiet == \A c \in Calls : calls[c].op = "none"

\* The part of a call that runs once the AMM is initialised.
Body(c, call) ==
    IF call.op = "addLiquidity" THEN addLiquidityBody(c, call)
    ELSE IF call.op = "removeLiquidity" THEN removeLiquidityBody(c, call)
    ELSE IF call.op = "getPrice" THEN getPriceBody(c, call)
    ELSE executeTradeBody(c, call)

\* A call is made in c, the first free slot: it awaits initialize() when the
\* AMM is not initialised (lines 471, 521, 586, 654), and runs its body otherwise.
Begin(c, call) ==
    /\ calls[c].op = "none"
    /\ \A k \in 1..(c - 1) : calls[k].op # "none"
    /\ IF initialized
       THEN Body(c, call)
       ELSE /\ Await(c, call, "initialize")
            /\ UNCHANGED <<pool, enginePool, quotePool, poolRet>>
    /\ UNCHANGED initialized
    /\ UNCHANGED bookVars
    /\ UNCHANGED serviceVars

\* AMM.initialize has resolved for the call in slot c (line 423), which goes on.
initialize(c) ==
    /\ calls[c].pc = "initialize"
    /\ initialized' = TRUE
    /\ Body(c, calls[c])
    /\ UNCHANGED bookVars
    /\ UNCHANGED serviceVars

addLiquidity(c, provider, amount, details) ==
    Begin(c, [NoCall EXCEPT !.op = "addLiquidity", !.provider = provider, !.amount = amount,
                            !.details = details])

removeLiquidity(c, provider, amount, withDetails) ==
    Begin(c, [NoCall EXCEPT !.op = "removeLiquidity", !.provider = provider, !.amount = amount,
                            !.withDetails = withDetails])

getPrice(c, details) ==
    Begin(c, [NoCall EXCEPT !.op = "getPrice", !.details = details])

executeTrade(c, buy, amount, details) ==
    Begin(c, [NoCall EXCEPT !.op = "executeTrade", !.isBuy = buy, !.amount = amount,
                            !.details = details])

-----------------------------------------------------------------------------
(* PooledLiquidity (pooledLiquidity.js): the allocator that spreads the     *)
(* capital of its providers over the pools of the AMM.  The AMM of the      *)
(* model has the pool of one contract, so the allocator's list of eligible  *)
(* options is that contract when its pool exists and is empty otherwise,    *)
(* and the normalised weight of the one option is 1 under every strategy.   *)
(* Left out: lastUpdated, optionWeights, distributionHistory.              *)

\* this.pool of the constructor: totalLiquidity: 2000, providers: {}.
NoPooled == [initialized |-> FALSE, totalLiquidity |-> 2000, providers |-> <<>>]
NoPooledCall == [op |-> "none", pc |-> "none", provider |-> "", amount |-> 0]
NoPooledRet == [op |-> "none", error |-> "none"]

\* The amounts PooledLiquidity is called with.
PooledAmountInputs == {400, 800, 0}

\* this.pool.providers[providerAddress] || 0
pooledContribution(pl, provider) ==
    IF provider \in DOMAIN pl.providers THEN pl.providers[provider] ELSE 0

\* !providerAddress || !amount || amount <= 0
pooledInvalid(provider, amount) == provider = "" \/ amount = 0 \/ amount <= 0

pooledReturn(op, e) ==
    /\ pooledCall' = NoPooledCall
    /\ pooledRet' = [op |-> op, error |-> e]

pooledAwait(call, at) ==
    /\ pooledCall' = [call EXCEPT !.pc = at]
    /\ UNCHANGED pooledRet

\* The optionDetails distributeLiquidity builds from the optionId: strike, type,
\* expiry and price: 0.5, to which the AMM adds currentPrice: 0.5.
distributeDetails == [NoDetails EXCEPT !.price = 50000, !.currentPrice = 50000]

\* PooledLiquidity.addLiquidity on the allocator pl after initialisation, with
\* distributeLiquidity up to the await of amm.addLiquidity for the one eligible
\* option, or to its return when there is none.
pooledAddLiquidityBody(pl, call) ==
    IF pooledInvalid(call.provider, call.amount)
    THEN /\ pooledReturn("addLiquidity", "InvalidAmount")
         /\ pooled' = pl
         /\ UNCHANGED <<pool, enginePool, quotePool, calls, poolRet>>
    ELSE /\ pooled' = [pl EXCEPT
                          !.providers = Put(@, call.provider,
                                            pooledContribution(pl, call.provider) + call.amount),
                          !.totalLiquidity = @ + call.amount]
         /\ pooledAwait(call, "distributed")
         /\ IF pool = NoPool
            THEN UNCHANGED <<pool, enginePool, quotePool, calls, poolRet>>
            ELSE addLiquidityBody(1, [NoCall EXCEPT !.op = "addLiquidity",
                                                    !.provider = call.provider,
                                                    !.amount = call.amount,
                                                    !.details = distributeDetails])

\* distributeLiquidity has resolved: addLiquidity returns success.
pooledAddLiquidityResume ==
    /\ pooledCall.pc = "distributed"
    /\ Quiet
    /\ pooledReturn("addLiquidity", "none")
    /\ UNCHANGED pooled
    /\ UNCHANGED <<bookVars, poolVars>>
    /\ UNCHANGED besideAllocator

\* PooledLiquidity.removeLiquidity on the allocator pl after initialisation,
\* with withdrawLiquidity up to the await of amm.removeLiquidity (which is
\* called without optionDetails and so returns or throws without an await of
\* its own), or to the throw of withdrawLiquidity when no pool holds liquidity
\* of the provider.
pooledRemoveLiquidityBody(pl, call) ==
    IF pooledInvalid(call.provider, call.amount)
    THEN /\ pooledReturn("removeLiquidity", "InvalidAmount")
         /\ pooled' = pl
         /\ UNCHANGED <<pool, enginePool, quotePool, calls, poolRet>>
    ELSE IF pooledContribution(pl, call.provider) < call.amount
    THEN /\ pooledReturn("removeLiquidity", "InsufficientLiquidity")
         /\ pooled' = pl
         /\ UNCHANGED <<pool, enginePool, quotePool, calls, poolRet>>
    ELSE /\ pooled' = [pl EXCEPT !.providers[call.provider] = @ - call.amount,
                                 !.totalLiquidity = @ - call.amount]
         /\ IF HeldIn(pool, call.provider) <= 0
            THEN /\ pooledReturn("removeLiquidity", "Failed")
                 /\ UNCHANGED <<pool, enginePool, quotePool, calls, poolRet>>
            ELSE /\ removeLiquidityBody(1, [NoCall EXCEPT !.op = "removeLiquidity",
                                                          !.provider = call.provider,
                                                          !.amount = call.amount,
                                                          !.withDetails = FALSE])
                 /\ pooledAwait(call, "withdrawn")

\* withdrawLiquidity has resolved: removeLiquidity returns success.
pooledRemoveLiquidityResume ==
    /\ pooledCall.pc = "withdrawn"
    /\ Quiet
    /\ pooledReturn("removeLiquidity", "none")
    /\ UNCHANGED pooled
    /\ UNCHANGED <<bookVars, poolVars>>
    /\ UNCHANGED besideAllocator

pooledBody(pl, call) ==
    IF call.op = "addLiquidity" THEN pooledAddLiquidityBody(pl, call)
    ELSE pooledRemoveLiquidityBody(pl, call)

\* A call of PooledLiquidity is made while no other is in progress: it awaits
\* initialize() when the allocator is not initialised, and runs its body
\* otherwise.
pooledBegin(call) ==
    /\ pooledCall.op = "none"
    /\ Quiet
    /\ IF pooled.initialized
       THEN pooledBody(pooled, call)
       ELSE /\ pooledAwait(call, "initialize")
            /\ UNCHANGED <<pooled, pool, enginePool, quotePool, calls, poolRet>>
    /\ UNCHANGED initialized
    /\ UNCHANGED bookVars
    /\ UNCHANGED besideAllocator

\* PooledLiquidity.initialize has resolved, and amm.initialize() with it
\* (lines 30-52); the call that awaited it goes on.
pooledInitialize ==
    /\ pooledCall.pc = "initialize"
    /\ Quiet
    /\ initialized' = TRUE
    /\ pooledBody([pooled EXCEPT !.initialized = TRUE], pooledCall)
    /\ UNCHANGED bookVars
    /\ UNCHANGED besideAllocator

pooledAddLiquidity(provider, amount) ==
    pooledBegin([NoPooledCall EXCEPT !.op = "addLiquidity", !.provider = provider,
                                     !.amount = amount])

pooledRemoveLiquidity(provider, amount) ==
    pooledBegin([NoPooledCall EXCEPT !.op = "removeLiquidity", !.provider = provider,
                                     !.amount = amount])

-----------------------------------------------------------------------------
(* The pricing models of pricingModels.js: BlackScholesBinaryModel,         *)
(* BinomialModel and PricingModelFactory.  They are pure functions of their *)
(* parameters; the model keeps the parameters of the last call and what it  *)
(* returned.                                                                *)
(*                                                                         *)
(* Units.  Probabilities, prices, d1, d2 and the factors u, d, p of the     *)
(* lattice are numbers of ten-thousandths (5000 is 0.5); a time is a number *)
(* of millionths of a year (8219 is 3 / 365), and so is the argument of     *)
(* Math.exp and of Math.sqrt.  currentProbability and strikeProbability are *)
(* given in hundredths of a percent, so that S = currentProbability / 100   *)
(* is the same numeral in ten-thousandths.  A number that may be NaN is a   *)
(* sequence: <<>> is NaN (and the undefined that an arithmetic operation    *)
(* turns into NaN), <<v>> is the number v.  Math.exp, Math.sqrt, Math.log   *)
(* and normalCDF are tabulated at the arguments the calls of the model      *)
(* evaluate them at, each value being the one the JavaScript function gives *)
(* rounded to a ten-thousandth.  Left out: delta, gamma, theta, vega and    *)
(* timestamp of the returned quote.                                         *)

NaN == <<>>

\* The parameters of the calls: volatility 0.5, riskFreeRate 0.05 and the
\* default liquidityFactor 0.1 throughout.
SpotInputs == {0, 5, 3000, 5000, 7000, 9995, 10000}
StrikeInputs == {3000, 5000, 7000}
ExpiryInputs == {0, 8219, 16438, 82191, 246575}
PricingInputs ==
    [currentProbability : SpotInputs, strikeProbability : StrikeInputs,
     timeToExpiry : ExpiryInputs, volatility : {5000}, riskFreeRate : {500},
     optionType : {"call", "put"}, liquidityFactor : {1000}]
NoParams ==
    [currentProbability |-> 0, strikeProbability |-> 0, timeToExpiry |-> 0,
     volatility |-> 0, riskFreeRate |-> 0, optionType |-> "none", liquidityFactor |-> 0]
NoPrice ==
    [model |-> "none", midPrice |-> NaN, bidPrice |-> NaN, askPrice |-> NaN,
     d1d2 |-> FALSE]

\* Math.sqrt of a number of millionths, in ten-thousandths.
MathSqrtTable ==
    (0 :> 0) @@ (1643 :> 405) @@ (2739 :> 523) @@ (8219 :> 907) @@
    (16438 :> 1282) @@ (82191 :> 2867) @@ (246575 :> 4966)

\* Math.exp of a number of millionths, in ten-thousandths.
MathExpTable ==
    ((0 - 12328) :> 9877) @@ ((0 - 4109) :> 9959) @@ ((0 - 821) :> 9992) @@
    ((0 - 410) :> 9996) @@ ((0 - 136) :> 9999) @@ ((0 - 82) :> 9999) @@
    (0 :> 10000) @@ (82 :> 10001) @@ (136 :> 10001) @@ (20250 :> 10205) @@
    (26150 :> 10265)

\* Math.log of a number of ten-thousandths, in ten-thousandths.
MathLogTable ==
    (7 :> (0 - 72644)) @@ (10 :> (0 - 69078)) @@ (16 :> (0 - 64378)) @@
    (4285 :> (0 - 8475)) @@ (6000 :> (0 - 5108)) @@ (7142 :> (0 - 3366)) @@
    (10000 :> 0) @@ (14000 :> 3365) @@ (14278 :> 3561) @@ (16666 :> 5108) @@
    (19990 :> 6926) @@ (23333 :> 8473) @@ (33316 :> 12035)

\* normalCDF (lines 176-187) between -4.7 and 4.7.
normalCDFTable ==
    ((0 - 36080) :> 2) @@ ((0 - 35210) :> 2) @@ ((0 - 34879) :> 2) @@
    ((0 - 33376) :> 4) @@ ((0 - 27146) :> 33) @@ ((0 - 24414) :> 73) @@
    ((0 - 23924) :> 84) @@ ((0 - 23047) :> 106) @@ ((0 - 21319) :> 165) @@
    ((0 - 19824) :> 237) @@ ((0 - 14303) :> 763) @@ ((0 - 13594) :> 870) @@
    ((0 - 12804) :> 1002) @@ ((0 - 748) :> 4702) @@ ((0 - 436) :> 4826) @@
    ((0 - 205) :> 4918) @@ ((0 - 144) :> 4943) @@ (0 :> 5000) @@
    (144 :> 5057) @@ (205 :> 5082) @@ (436 :> 5174) @@ (748 :> 5298) @@
    (12804 :> 8998) @@ (13594 :> 9130) @@ (14303 :> 9237) @@
    (19824 :> 9763) @@ (21319 :> 9835) @@ (23047 :> 9894) @@
    (23924 :> 9916) @@ (24414 :> 9927) @@ (27146 :> 9967) @@
    (33376 :> 9996) @@ (34879 :> 9998) @@ (35210 :> 9998) @@ (36080 :> 9998)

MathSqrt(x) == MathSqrtTable[x]
MathExp(x) == MathExpTable[x]
MathLog(x) == MathLogTable[x]

\* normalCDF(x): beyond 4.7 on either side the approximation is within half a
\* ten-thousandth of 0 or of 1.
normalCDF(x) ==
    IF x <= 0 - 47000 THEN 0
    ELSE IF x >= 47000 THEN 10000
    ELSE normalCDFTable[x]

\* Math.max(0, x) and Math.min(1, x) of a number that may be NaN.
MathMax0(x) == IF x = NaN THEN NaN ELSE <<Max(0, x[1])>>
MathMin1(x) == IF x = NaN THEN NaN ELSE <<Min(10000, x[1])>>

\* baseBidAskSpread * (1 + liquidityFactor), with baseBidAskSpread = 0.05.
dynamicSpread(liquidityFactor) == Div(500 * (10000 + liquidityFactor), 10000)

\* The bid and the ask around midPrice (lines 143-152 and 234-243).
spreadQuote(model, midPrice, liquidityFactor, d1d2) ==
    LET half == Div(dynamicSpread(liquidityFactor), 2)
    IN  [model |-> model,
         midPrice |-> midPrice,
         bidPrice |-> MathMax0(IF midPrice = NaN THEN NaN ELSE <<midPrice[1] - half>>),
         askPrice |-> MathMin1(IF midPrice = NaN THEN NaN ELSE <<midPrice[1] + half>>),
         d1d2 |-> d1d2]

\* BlackScholesBinaryModel.calculateD1D2
calculateD1D2(S, K, timeToExpiry, volatility, riskFreeRate) ==
    IF S = 0 \/ S = 10000 \/ volatility < 100 \/ timeToExpiry < 1000
    THEN [d1 |-> 0, d2 |-> 0]
    ELSE LET drift == Div((riskFreeRate + Div(volatility * volatility, 20000)) * timeToExpiry,
                          1000000)
             deviation == Div(volatility * MathSqrt(timeToExpiry), 10000)
             d1 == Div((MathLog(Div(S * 10000, K)) + drift) * 10000, deviation)
         IN  [d1 |-> d1, d2 |-> d1 - deviation]

\* The quote the model returns for a spot next to 0 (a call) or to 1 (a put).
fixedQuote ==
    [model |-> "BlackScholesBinaryModel", midPrice |-> <<10>>, bidPrice |-> <<0>>,
     askPrice |-> <<20>>, d1d2 |-> FALSE]

\* The quote at expiry.
expiryQuote(midPrice) ==
    [model |-> "BlackScholesBinaryModel", midPrice |-> <<midPrice>>,
     bidPrice |-> <<midPrice>>, askPrice |-> <<midPrice>>, d1d2 |-> FALSE]

\* BlackScholesBinaryModel.calculatePrice(params); d1d2 records whether
\* calculateD1D2 was called.
blackScholesPrice(params) ==
    LET S == params.currentProbability
        K == params.strikeProbability
        T == params.timeToExpiry
        call == params.optionType = "call"
        d == calculateD1D2(S, K, T, params.volatility, params.riskFreeRate)
        discount == MathExp(0 - Div(params.riskFreeRate * T, 10000))
        theoretical == Div(discount * normalCDF(IF call THEN d.d2 ELSE 0 - d.d2), 10000)
    IN  IF T <= 0
        THEN (IF call THEN expiryQuote(IF S > K THEN 10000 ELSE 0)
                      ELSE expiryQuote(IF S < K THEN 10000 ELSE 0))
        ELSE IF S < 10 /\ call THEN fixedQuote
        ELSE IF S > 9990 /\ ~call THEN fixedQuote
        ELSE spreadQuote("BlackScholesBinaryModel", <<Max(0, Min(10000, theoretical))>>,
                         params.liquidityFactor, TRUE)

\* Math.pow(base, n) for a whole n >= 0.
RECURSIVE MathPow(_, _)
MathPow(base, n) == IF n = 0 THEN 10000 ELSE Div(base * MathPow(base, n - 1), 10000)

\* Math.ceil(timeToExpiry * 365)
ceilDays(timeToExpiry) == (timeToExpiry * 365 + 999999) \div 1000000

\* The factors of BinomialModel.buildTree (lines 252-255); p is 0 / 0 when u
\* and d are equal.
latticeFactors(steps, timeToExpiry, volatility, riskFreeRate) ==
    LET dt == Div(timeToExpiry, steps)
        u == MathExp(Div(volatility * MathSqrt(dt), 100))
        d == Div(100000000, u)
        growth == MathExp(Div(riskFreeRate * dt, 10000))
    IN  [u |-> u, d |-> d,
         p |-> IF u = d THEN NaN ELSE <<Div((growth - d) * 10000, u - d)>>,
         discount |-> MathExp(0 - Div(riskFreeRate * dt, 10000))]

\* S * Math.pow(u, steps - i) * Math.pow(d, i)
finalProbability(S, f, steps, i) ==
    Div(Div(S * MathPow(f.u, steps - i), 10000) * MathPow(f.d, i), 10000)

\* Math.exp(-riskFreeRate * dt) * (p * up + (1 - p) * down) of two cells of the
\* tree; an operand that is undefined or NaN makes it NaN.
treeNode(f, up, down) ==
    IF f.p = NaN \/ up = NaN \/ down = NaN THEN NaN
    ELSE <<Div(f.discount * Div(f.p[1] * up[1] + (10000 - f.p[1]) * down[1], 10000), 10000)>>

\* tree[i] = new Array(i + 1) with tree[i][i] the payoff (lines 258-265); a
\* cell that was never written reads as undefined.
initialTree(steps, S, K, f) ==
    [i \in 0..steps, j \in 0..steps |->
        IF i = j THEN <<IF finalProbability(S, f, steps, i) > K THEN 10000 ELSE 0>>
        ELSE NaN]

\* The two loops of lines 268-273, from column j and row i on.
RECURSIVE workBackwards(_, _, _, _)
workBackwards(tree, f, j, i) ==
    IF j < 0 THEN tree
    ELSE IF i > j THEN workBackwards(tree, f, j - 1, 0)
    ELSE workBackwards([tree EXCEPT ![i, j] = treeNode(f, tree[i, j + 1], tree[i + 1, j + 1])],
                       f, j, i + 1)

\* BinomialModel.buildTree(steps, params)
buildTree(steps, S, K, timeToExpiry, volatility, riskFreeRate) ==
    LET f == latticeFactors(steps, timeToExpiry, volatility, riskFreeRate)
    IN  workBackwards(initialTree(steps, S, K, f), f, steps - 1, 0)

\* BinomialModel.calculatePrice(params); optionType is not read.
binomialPrice(params) ==
    LET steps == Max(5, Min(50, ceilDays(params.timeToExpiry)))
        tree == buildTree(steps, params.currentProbability, params.strikeProbability,
                          params.timeToExpiry, params.volatility, params.riskFreeRate)
    IN  spreadQuote("BinomialModel", tree[0, 0], params.liquidityFactor, FALSE)

\* PricingModelFactory.createModel(params): timeToExpiry < 7 / 365.
createModel(params) ==
    IF params.timeToExpiry * 365 < 7000000 THEN "BinomialModel"
    ELSE "BlackScholesBinaryModel"

modelPrice(model, params) ==
    IF model = "BinomialModel" THEN binomialPrice(params) ELSE blackScholesPrice(params)

\* A call of calculatePrice of the given model.
calculatePriceWith(model, params) ==
    /\ pricingParams' = params
    /\ pricingRet' = modelPrice(model, params)
    /\ UNCHANGED <<bookVars, poolVars>>
    /\ UNCHANGED besidePricing

\* PricingModelFactory.createModel(params).calculatePrice(params)
factoryCalculatePrice(params) == calculatePriceWith(createModel(params), params)

\* new BlackScholesBinaryModel().calculatePrice(params)
blackScholesCalculatePrice(params) == calculatePriceWith("BlackScholesBinaryModel", params)

-----------------------------------------------------------------------------
(* VolatilityService (volatility.js) for one marketId: the cache of the     *)
(* base estimate, getDynamicVolatility and updateVolatilityEstimate.  A     *)
(* call runs from one await to the next in one step, and the clock may      *)
(* advance while it waits.                                                  *)
(*                                                                         *)
(* Units.  A time is a number of periods of 20 minutes, so that the         *)
(* validity of an entry of the cache, 3600000 ms, is 3.  A volatility is a  *)
(* number of thousandths (500 is 0.5); timeToExpiry is given in days.       *)
(* calculateVolatility reads the history of the market from a service       *)
(* outside this class; what it resolves to is an input of the step in       *)
(* which the call goes on (it catches every error and resolves to           *)
(* defaultVolatility then, so the catch blocks of the two methods are not   *)
(* reached).                                                                *)

\* now - cachedVol.timestamp < 3600000
CACHE_VALIDITY == 3

\* The last reading of the clock.
MaxClock == 5

VolCallIds == {1, 2}

\* What calculateVolatility resolves to (0.5 is defaultVolatility), and the
\* timeToExpiry of the calls.
EstimateInputs == {300, 500}
DaysToExpiryInputs == {0, 14, 60}

NoEntry == <<>>
NoWritten == [at |-> 0, started |-> 0]
NoVolCall == [op |-> "none", now |-> 0, timeToExpiry |-> 0]
NoVolRet == [op |-> "none", value |-> 0]

\* VolatilityService.applyTermStructure(baseVol, timeToExpiry) with minVolatility 0.25
applyTermStructure(baseVol, daysToExpiry) ==
    LET volatilityAdjustment ==
            IF daysToExpiry < 7 THEN 1000 + Div(500 * (7 - daysToExpiry), 7)
            ELSE IF daysToExpiry > 30 THEN 900
            ELSE 1000
    IN  Max(250, Div(baseVol * volatilityAdjustment, 1000))

\* cachedVol && (now - cachedVol.timestamp < 3600000)
cacheFresh(cachedVol, t) ==
    cachedVol # NoEntry /\ t - cachedVol[1].timestamp < CACHE_VALIDITY

\* this.volatilityCache.set(marketId, {value, timestamp}) by the call c.
cacheSet(c, value, timestamp) ==
    /\ volatilityCache' = <<[value |-> value, timestamp |-> timestamp]>>
    /\ cacheWritten' = [at |-> clock, started |-> volCalls[c].now]

\* getDynamicVolatility(marketId, timeToExpiry) up to its return from the
\* cache or to the await of calculateVolatility.
getDynamicVolatility(c, timeToExpiry) ==
    /\ volCalls[c].op = "none"
    /\ IF cacheFresh(volatilityCache, clock)
       THEN /\ volRet' = [op |-> "getDynamicVolatility",
                          value |-> applyTermStructure(volatilityCache[1].value,
                                                       timeToExpiry)]
            /\ UNCHANGED volCalls
       ELSE /\ volCalls' = [volCalls EXCEPT ![c] =
                               [op |-> "getDynamicVolatility", now |-> clock,
                                timeToExpiry |-> timeToExpiry]]
            /\ UNCHANGED volRet
    /\ UNCHANGED <<volatilityCache, cacheWritten, clock>>
    /\ UNCHANGED <<bookVars, poolVars>>
    /\ UNCHANGED besideVolatility

\* calculateVolatility has resolved to baseVolatility: the call caches it
\* under the now it read before the await, and returns.
getDynamicVolatilityResume(c, baseVolatility) ==
    /\ volCalls[c].op = "getDynamicVolatility"
    /\ cacheSet(c, baseVolatility, volCalls[c].now)
    /\ volRet' = [op |-> "getDynamicVolatility",
                  value |-> applyTermStructure(baseVolatility, volCalls[c].timeToExpiry)]
    /\ volCalls' = [volCalls EXCEPT ![c] = NoVolCall]
    /\ UNCHANGED clock
    /\ UNCHANGED <<bookVars, poolVars>>
    /\ UNCHANGED besideVolatility

\* updateVolatilityEstimate(marketId) up to the await of calculateVolatility;
\* now is kept for the bookkeeping only.
updateVolatilityEstimate(c) ==
    /\ volCalls[c].op = "none"
    /\ volCalls' = [volCalls EXCEPT ![c] =
                       [op |-> "updateVolatilityEstimate", now |-> clock,
                        timeToExpiry |-> 0]]
    /\ UNCHANGED <<volatilityCache, cacheWritten, clock, volRet>>
    /\ UNCHANGED <<bookVars, poolVars>>
    /\ UNCHANGED besideVolatility

\* calculateVolatility has resolved: the call caches the estimate under the
\* Date.now() of this moment and returns it.
updateVolatilityEstimateResume(c, baseVolatility) ==
    /\ volCalls[c].op = "updateVolatilityEstimate"
    /\ cacheSet(c, baseVolatility, clock)
    /\ volRet' = [op |-> "updateVolatilityEstimate", value |-> baseVolatility]
    /\ volCalls' = [volCalls EXCEPT ![c] = NoVolCall]
    /\ UNCHANGED clock
    /\ UNCHANGED <<bookVars, poolVars>>
    /\ UNCHANGED besideVolatility

\* Time passes.
Tick ==
    /\ clock < MaxClock
    /\ clock' = clock + 1
    /\ UNCHANGED <<volatilityCache, cacheWritten, volCalls, volRet>>
    /\ UNCHANGED <<bookVars, poolVars>>
    /\ UNCHANGED besideVolatility

-----------------------------------------------------------------------------
(* MarketUpdater (marketUpdater.js) for one marketUrl with one listener:    *)
(* startPolling and the chain of updateFn timers it starts, stopPolling     *)
(* and forceRefresh.  A call runs from one await to the next in one step.   *)
(* A fetch of polymarketUtils.getCurrentMarketData resolves with data,      *)
(* rejects, or stays pending; waited counts the time it has been pending    *)
(* in periods of 5 seconds, so that the timeoutMs = 10000 of                *)
(* fetchWithTimeout is 2.  A timer of a chain fires at any moment.          *)
(* Left out: the fields of the data other than probability and title,      *)
(* the _fetchError mark of the data startPolling returns, addListener /     *)
(* removeListener, and stopAllPolling and adjustPollingInterval, which act  *)
(* only on the urls that updateIntervals holds.                             *)

\* fetchWithTimeout(url, timeoutMs = 10000)
FETCH_TIMEOUT == 2

\* The calls of startPolling, the longest a fetch stays pending, and the
\* failures in a row of the polls of one chain.
MaxChains == 2
MaxWait == 3
MaxFailures == 2

ChainIds == 1..MaxChains

\* What a fetch resolves with, and the default data of startPolling.
FetchedData == [probability : {40, 60}, title : {"Event"}]
defaultData == [probability |-> 50, title |-> "Default Event"]

NoData == <<>>
NoChain == [pc |-> "none", waited |-> 0, consecutiveFailures |-> 0]
NoRefresh == [pc |-> "none", waited |-> 0]
NoNotified == [by |-> "none", probability |-> 0]
NoUpdaterRet == [op |-> "none", error |-> "none", data |-> NoData]

\* currentInterval in seconds after n failures in a row, with the default
\* interval of 30 seconds (lines 121-123).
currentInterval(n) ==
    IF n = 0 THEN 30 ELSE Min(30 * 2 ^ (Min(n, 5) - 1), 300)

\* The chains that startPolling has begun.
Begun == {k \in ChainIds : chains[k].pc # "none"}

\* MarketUpdater.stopPolling(marketUrl)
stopPollingBody ==
    IF updateIntervals
    THEN updateIntervals' = FALSE /\ isPolling' = FALSE
    ELSE UNCHANGED <<updateIntervals, isPolling>>

stopPolling ==
    /\ stopPollingBody
    /\ superseded' = Begun
    /\ updaterRet' = [NoUpdaterRet EXCEPT !.op = "stopPolling"]
    /\ UNCHANGED <<lastFetchedData, chains, refresh, notified>>
    /\ UNCHANGED <<bookVars, poolVars>>
    /\ UNCHANGED besideUpdater

\* MarketUpdater.startPolling(marketUrl) up to the await of the initial fetch;
\* k is the chain this call will start.
startPolling(k) ==
    /\ chains[k].pc = "none"
    /\ \A j \in ChainIds : j < k => chains[j].pc # "none"
    /\ stopPollingBody
    /\ superseded' = Begun
    /\ chains' = [chains EXCEPT ![k] = [NoChain EXCEPT !.pc = "initial"]]
    /\ UNCHANGED <<lastFetchedData, refresh, notified, updaterRet>>
    /\ UNCHANGED <<bookVars, poolVars>>
    /\ UNCHANGED besideUpdater

\* The rest of startPolling once initialData is known: the data is stored,
\* isPolling is set, the first timer of updateFn is set and the data is
\* returned.
startPollingRest(k, initialData) ==
    /\ lastFetchedData' = <<initialData>>
    /\ isPolling' = TRUE
    /\ chains' = [chains EXCEPT ![k] = [NoChain EXCEPT !.pc = "timer"]]
    /\ updaterRet' = [NoUpdaterRet EXCEPT !.op = "startPolling", !.data = <<initialData>>]
    /\ UNCHANGED <<updateIntervals, refresh, notified, superseded>>
    /\ UNCHANGED <<bookVars, poolVars>>
    /\ UNCHANGED besideUpdater

\* The initial fetch has resolved with data.
startPollingFetched(k, data) ==
    /\ chains[k].pc = "initial"
    /\ startPollingRest(k, data)

\* The initial fetch has rejected or has timed out: the default data stands
\* in for it.
startPollingFailed(k) ==
    /\ chains[k].pc = "initial"
    /\ startPollingRest(k, defaultData)

\* The finally block of updateFn after n failures in a row; the timer is set
\* to currentInterval(n).
scheduleNext(k, n) ==
    chains' = [chains EXCEPT ![k] =
                  [pc |-> IF isPolling THEN "timer" ELSE "ended", waited |-> 0,
                   consecutiveFailures |-> n]]

\* The timer of chain k fires: updateFn up to the await of its fetch.
updateFn(k) ==
    /\ chains[k].pc = "timer"
    /\ chains' = [chains EXCEPT ![k].pc = IF isPolling THEN "fetch" ELSE "ended"]
    /\ UNCHANGED <<lastFetchedData, isPolling, updateIntervals, refresh, notified,
                   updaterRet, superseded>>
    /\ UNCHANGED <<bookVars, poolVars>>
    /\ UNCHANGED besideUpdater

\* The fetch of updateFn has resolved with updatedData.
updateFnFetched(k, updatedData) ==
    /\ chains[k].pc = "fetch"
    /\ IF updatedData.probability # lastFetchedData[1].probability
       THEN /\ lastFetchedData' = <<updatedData>>
            /\ notified' = [by |-> "updateFn", probability |-> updatedData.probability]
       ELSE UNCHANGED <<lastFetchedData, notified>>
    /\ scheduleNext(k, 0)
    /\ UNCHANGED <<isPolling, updateIntervals, refresh, updaterRet, superseded>>
    /\ UNCHANGED <<bookVars, poolVars>>
    /\ UNCHANGED besideUpdater

\* The fetch of updateFn has rejected or has timed out.
updateFnFailed(k) ==
    /\ chains[k].pc = "fetch"
    /\ scheduleNext(k, chains[k].consecutiveFailures + 1)
    /\ UNCHANGED <<lastFetchedData, isPolling, updateIntervals, refresh, notified,
                   updaterRet, superseded>>
    /\ UNCHANGED <<bookVars, poolVars>>
    /\ UNCHANGED besideUpdater

\* MarketUpdater.forceRefresh(marketUrl) up to the await of its fetch.
forceRefresh ==
    /\ refresh.pc = "none"
    /\ refresh' = [pc |-> "fetch", waited |-> 0]
    /\ UNCHANGED <<lastFetchedData, isPolling, updateIntervals, chains, notified,
                   updaterRet, superseded>>
    /\ UNCHANGED <<bookVars, poolVars>>
    /\ UNCHANGED besideUpdater

\* The fetch of forceRefresh has resolved with updatedData.
forceRefreshFetched(updatedData) ==
    /\ refresh.pc = "fetch"
    /\ lastFetchedData' = <<updatedData>>
    /\ notified' = [by |-> "forceRefresh", probability |-> updatedData.probability]
    /\ refresh' = NoRefresh
    /\ updaterRet' = [NoUpdaterRet EXCEPT !.op = "forceRefresh", !.data = <<updatedData>>]
    /\ UNCHANGED <<isPolling, updateIntervals, chains, superseded>>
    /\ UNCHANGED <<bookVars, poolVars>>
    /\ UNCHANGED besideUpdater

\* The fetch of forceRefresh has rejected: the error is thrown on.
forceRefreshFailed ==
    /\ refresh.pc = "fetch"
    /\ refresh' = NoRefresh
    /\ updaterRet' = [NoUpdaterRet EXCEPT !.op = "forceRefresh", !.error = "FetchFailed"]
    /\ UNCHANGED <<lastFetchedData, isPolling, updateIntervals, chains, notified,
                   superseded>>
    /\ UNCHANGED <<bookVars, poolVars>>
    /\ UNCHANGED besideUpdater

\* The fetches of fetchWithTimeout that are pending.
Raced == {k \in ChainIds : chains[k].pc \in {"initial", "fetch"}}

\* 5 seconds pass while a fetch is pending.  A fetch of fetchWithTimeout that
\* has been pending for timeoutMs loses the race of line 42 before more time
\* passes.  The fetch of forceRefresh is raced against nothing:
\* getCurrentMarketData aborts its two requests after 8 and 10 seconds but
\* clears each timer when the headers of the response arrive
\* (polymarket.js:87-98, 238-252), so the reading of a body stays pending for
\* as long as the server leaves it so.
Elapse ==
    /\ Raced # {} \/ refresh.pc = "fetch"
    /\ \A k \in Raced : chains[k].waited < FETCH_TIMEOUT
    /\ refresh.pc = "fetch" => refresh.waited < MaxWait
    /\ chains' = [k \in ChainIds |->
                     IF k \in Raced THEN [chains[k] EXCEPT !.waited = @ + 1]
                     ELSE chains[k]]
    /\ refresh' = IF refresh.pc = "fetch" THEN [refresh EXCEPT !.waited = @ + 1]
                  ELSE refresh
    /\ UNCHANGED <<lastFetchedData, isPolling, updateIntervals, notified, updaterRet,
                   superseded>>
    /\ UNCHANGED <<bookVars, poolVars>>
    /\ UNCHANGED besideUpdater

-----------------------------------------------------------------------------

Init ==
    /\ orders = <<>>
    /\ bids = <<>>
    /\ asks = <<>>
    /\ lastOrderId = 0
    /\ now = 0
    /\ pc = "idle"
    /\ trades = <<>>
    /\ remainingQuantity = 0
    /\ isBuy = FALSE
    /\ ret = NoRet
    /\ initialized = FALSE
    /\ pool = NoPool
    /\ enginePool = NoPool
    /\ quotePool = NoPool
    /\ calls = [c \in Calls |-> NoCall]
    /\ poolRet = NoPoolRet
    /\ pooled = NoPooled
    /\ pooledCall = NoPooledCall
    /\ pooledRet = NoPooledRet
    /\ pricingParams = NoParams
    /\ pricingRet = NoPrice
    /\ volatilityCache = NoEntry
    /\ cacheWritten = NoWritten
    /\ volCalls = [c \in VolCallIds |-> NoVolCall]
    /\ clock = 0
    /\ volRet = NoVolRet
    /\ lastFetchedData = NoData
    /\ isPolling = FALSE
    /\ updateIntervals = FALSE
    /\ chains = [k \in ChainIds |-> NoChain]
    /\ refresh = NoRefresh
    /\ notified = NoNotified
    /\ updaterRet = NoUpdaterRet
    /\ superseded = {}

\* The order store holds at most n orders: a call that would store one more is
\* left out of the model (a call that is rejected is not).
Storable(in, n) == placeOrderInvalid("u1", in[1], in[2]) \/ lastOrderId < n

\* Every operation that changes the book, with every input.
Next ==
    \/ \E u \in PlacingUsers, in \in OrderInputs, s \in BOOLEAN :
           Storable(in, MaxOrders) /\ placeOrder(u, s, in[1], in[2])
    \/ matchOrdersStep
    \/ matchOrdersReturn
    \/ \E id \in OrderIdInputs, u \in Users : cancelOrder(id, u)
    \/ \E id \in OrderIdInputs, u \in Users, in \in OrderInputs :
           Storable(in, MaxOrders) /\ updateOrder(id, u, in[1], in[2])
    \/ \E b \in BOOLEAN, q \in MarketQuantityInputs : executeMarketOrder(b, q)
    \/ executeMarketOrderStep
    \/ executeMarketOrderReturn

Spec == Init /\ [][Next]_vars

\* The same operations with the regular inputs and one more order.
NextDeep ==
    \/ \E in \in RegularInputs, s \in BOOLEAN :
           Storable(in, MaxOrdersDeep) /\ placeOrder("u1", s, in[1], in[2])
    \/ matchOrdersStep
    \/ matchOrdersReturn
    \/ \E id \in 1..MaxOrdersDeep, u \in Users : cancelOrder(id, u)
    \/ \E id \in 1..MaxOrdersDeep, u \in Users, in \in RegularInputs :
           Storable(in, MaxOrdersDeep) /\ updateOrder(id, u, in[1], in[2])
    \/ \E b \in BOOLEAN, q \in RegularMarketInputs : executeMarketOrder(b, q)
    \/ executeMarketOrderStep
    \/ executeMarketOrderReturn

SpecDeep == Init /\ [][NextDeep]_vars

\* The operations with the regular inputs, and the venue query.
NextVenue ==
    \/ \E in \in RegularInputs, s \in BOOLEAN :
           Storable(in, MaxOrders) /\ placeOrder("u1", s, in[1], in[2])
    \/ matchOrdersStep
    \/ matchOrdersReturn
    \/ \E id \in OrderIdInputs, u \in Users : cancelOrder(id, u)
    \/ \E b \in BOOLEAN, q \in RegularMarketInputs : executeMarketOrder(b, q)
    \/ executeMarketOrderStep
    \/ executeMarketOrderReturn
    \/ \E b \in BOOLEAN, q \in VenueQuantityInputs, amm \in AmmPricingInputs :
           GetBestExecutionVenue(b, q, amm)

SpecVenue == Init /\ [][NextVenue]_vars

\* The liquidity a call of addLiquidity would bring either pool and the
\* provider's entry in it to stays within MaxLiquidity, above and below; the
\* volume a trade would bring the engine's pool to stays within MaxVolume.
Addable(provider, amount) ==
    \A p \in {pool, enginePool} :
        /\ Abs(TotalOf(p) + amount) <= MaxLiquidity
        /\ Abs(HeldIn(p, provider) + amount) <= MaxLiquidity
Tradable(amount) ==
    (IF enginePool = NoPool THEN 0 ELSE enginePool.buyVolume + enginePool.sellVolume) + amount
        <= MaxVolume

\* The returns and resumptions of the calls that wait at an await.
Resume ==
    \/ \E c \in Calls : initialize(c)
    \/ \E c \in Calls : addLiquidityResume(c)
    \/ \E c \in Calls : removeLiquidityEngineResume(c)
    \/ \E c \in Calls : removeLiquidityResume(c)
    \/ \E c \in Calls : getPriceResume(c)
    \/ \E c \in Calls : executeTradeEngineResume(c)
    \/ \E c \in Calls : executeTradeResume(c)

\* One call at a time: the liquidity calls of two providers with every amount,
\* beside quotes and buys of one size at one reading of the market.
NextPool ==
    \/ \E p \in Providers, a \in AddAmountInputs : Addable(p, a) /\ addLiquidity(1, p, a, NoDetails)
    \/ \E p \in Providers, a \in RemoveAmountInputs, wd \in BOOLEAN : removeLiquidity(1, p, a, wd)
    \/ getPrice(1, NoDetails)
    \/ Tradable(MaxVolume) /\ executeTrade(1, TRUE, MaxVolume, NoDetails)
    \/ Resume

SpecPool == Init /\ [][NextPool]_vars

\* Calls made while others wait at an await: deposits and withdrawals of one
\* provider, beside buys of one size, in every interleaving.
NextRace ==
    \/ \E c \in Calls : Addable("p1", 400) /\ addLiquidity(c, "p1", 400, NoDetails)
    \/ \E c \in Calls, a \in RemoveAmountInputs, wd \in BOOLEAN : removeLiquidity(c, "p1", a, wd)
    \/ \E c \in Calls : Tradable(MaxVolume) /\ executeTrade(c, TRUE, MaxVolume, NoDetails)
    \/ \E c \in Calls : initialize(c)
    \/ \E c \in Calls : addLiquidityResume(c)
    \/ \E c \in Calls : removeLiquidityEngineResume(c)
    \/ \E c \in Calls : removeLiquidityResume(c)
    \/ \E c \in Calls : executeTradeEngineResume(c)
    \/ \E c \in Calls : executeTradeResume(c)

SpecRace == Init /\ [][NextRace]_vars

\* One call at a time: quotes and trades of either side with every amount and
\* every optionDetails, on a pool one provider adds liquidity to.
NextTrade ==
    \/ Addable("p1", 400) /\ addLiquidity(1, "p1", 400, NoDetails)
    \/ \E d \in DetailsInputs : getPrice(1, d)
    \/ \E b \in BOOLEAN, a \in TradeAmountInputs, d \in DetailsInputs :
           Tradable(a) /\ executeTrade(1, b, a, d)
    \/ initialize(1)
    \/ addLiquidityResume(1)
    \/ getPriceResume(1)
    \/ executeTradeEngineResume(1)
    \/ executeTradeResume(1)

SpecTrade == Init /\ [][NextTrade]_vars

\* The calls of the allocator, one at a time, beside the quote that creates the
\* pool of the contract in the AMM.  The contributions of the providers stay
\* within MaxLiquidity - MIN_LIQUIDITY in all, and the pools within MaxLiquidity.
PooledAddable(amount) ==
    (pooled.totalLiquidity - NoPooled.totalLiquidity) + amount <= MaxLiquidity - MIN_LIQUIDITY
NextAllocator ==
    \/ \E p \in Providers, a \in PooledAmountInputs :
           PooledAddable(a) /\ Addable(p, a) /\ pooledAddLiquidity(p, a)
    \/ \E p \in Providers, a \in PooledAmountInputs : pooledRemoveLiquidity(p, a)
    \/ pooledInitialize
    \/ pooledAddLiquidityResume
    \/ pooledRemoveLiquidityResume
    \/ pooledCall.op = "none" /\ getPrice(1, NoDetails)
    \/ initialize(1)
    \/ getPriceResume(1)
    \/ addLiquidityResume(1)

SpecAllocator == Init /\ [][NextAllocator]_vars

\* The calls of the pricing models: the model the factory selects (the tree
\* model below 7 days, with 5 or 6 steps), and the closed-form model called
\* directly at every expiry.
NextPricing ==
    \/ \E params \in PricingInputs : factoryCalculatePrice(params)
    \/ \E params \in PricingInputs : blackScholesCalculatePrice(params)

SpecPricing == Init /\ [][NextPricing]_vars

\* The calls of VolatilityService in every interleaving, up to two at a time,
\* while the clock advances.
NextVolatility ==
    \/ \E c \in VolCallIds, t \in DaysToExpiryInputs : getDynamicVolatility(c, t)
    \/ \E c \in VolCallIds, v \in EstimateInputs : getDynamicVolatilityResume(c, v)
    \/ \E c \in VolCallIds : updateVolatilityEstimate(c)
    \/ \E c \in VolCallIds, v \in EstimateInputs : updateVolatilityEstimateResume(c, v)
    \/ Tick

SpecVolatility == Init /\ [][NextVolatility]_vars

\* The calls of MarketUpdater, the timers of its chains and the outcomes of
\* its fetches, in every interleaving.
NextUpdater ==
    \/ \E k \in ChainIds : startPolling(k)
    \/ \E k \in ChainIds, data \in FetchedData : startPollingFetched(k, data)
    \/ \E k \in ChainIds : startPollingFailed(k)
    \/ \E k \in ChainIds : updateFn(k)
    \/ \E k \in ChainIds, data \in FetchedData : updateFnFetched(k, data)
    \/ \E k \in ChainIds :
           chains[k].consecutiveFailures < MaxFailures /\ updateFnFailed(k)
    \/ stopPolling
    \/ forceRefresh
    \/ \E data \in FetchedData : forceRefreshFetched(data)
    \/ forceRefreshFailed
    \/ Elapse

SpecUpdater == Init /\ [][NextUpdater]_vars

-----------------------------------------------------------------------------
(* Properties.                                                             *)

OrderIds == DOMAIN orders
ActiveBids == {i \in OrderIds : orders[i].isBid /\ orders[i].status = "active"}
ActiveAsks == {i \in OrderIds : ~orders[i].isBid /\ orders[i].status = "active"}

\* C1: whenever the operations called so far have returned, no active bid has a
\* price greater than or equal to the price of an active ask.
C1_BookInvariant ==
    pc = "idle" => \A b \in ActiveBids, a \in ActiveAsks : orders[b].price < orders[a].price

\* A partly filled bid rests beside an active ask: a cross has been matched and
\* both sides of the book are occupied.
C1_Witness ==
    /\ pc = "idle"
    /\ \E b \in ActiveBids : orders[b].filled > 0
    /\ ActiveAsks # {}

\* C2: every trade of matchOrders has the limit price of whichever of its two
\* orders was placed earlier (order ids are given in the order of placement).
C2_EarlierOrderPrice ==
    pc = "match" =>
        \A k \in 1..Len(trades) :
            trades[k].price = orders[Min(trades[k].buyOrderId, trades[k].sellOrderId)].price

\* C3: a step never removes an order from the store, never changes the status
\* of an order that is filled or cancelled, and stores a new order as active.
C3_Lifecycle ==
    [][/\ \A i \in DOMAIN orders :
              /\ i \in DOMAIN orders'
              /\ orders'[i].status \in {"active", "filled", "cancelled"}
              /\ orders[i].status # "active" => orders'[i].status = orders[i].status
       /\ \A i \in DOMAIN orders' \ DOMAIN orders : orders'[i].status = "active"]_vars

\* One order has been filled and another cancelled.
C3_Witness ==
    \E i, j \in OrderIds : orders[i].status = "filled" /\ orders[j].status = "cancelled"

\* C4: a trade of matchOrders is between a bid and an ask, has the quantity
\* min(bid remaining, ask remaining), adds that quantity to the filled amount of
\* both, and leaves the filled amount of every other order alone.
C4_Conservation ==
    [][(pc = "match" /\ Len(trades') = Len(trades) + 1) =>
          LET t == trades'[Len(trades')]
              b == t.buyOrderId
              a == t.sellOrderId
          IN  /\ orders[b].isBid /\ ~orders[a].isBid
              /\ t.quantity = Min(Remaining(orders[b]), Remaining(orders[a]))
              /\ orders'[b].filled = orders[b].filled + t.quantity
              /\ orders'[a].filled = orders[a].filled + t.quantity
              /\ \A i \in OrderIds \ {a, b} : orders'[i].filled = orders[i].filled]_vars

\* matchOrders has made two trades in one call, the second with an order the
\* first left partly filled.
C4_Witness ==
    /\ pc = "match"
    /\ Len(trades) = 2
    /\ trades[1].quantity > 0 /\ trades[2].quantity > 0

\* The remaining quantity of the orders resting in the book.
BookRemaining == availableQuantity(orders, bids) + availableQuantity(orders, asks)

\* C5: every iteration of the matching loop that finds a crossing pair strictly
\* reduces the total remaining quantity of the orders resting in the book.
C5_StrictDecrease ==
    [][(pc = "match" /\ Len(trades') = Len(trades) + 1) => BookRemaining' < BookRemaining]_vars

\* C6: executeMarketOrder for more than the remaining quantity of the opposite
\* side throws the insufficient-liquidity error, starts no loop, and leaves every
\* order and both sequences of the book as they were.
C6_RejectNoFill ==
    [][\A b \in BOOLEAN, q \in MarketQuantityInputs :
          (executeMarketOrder(b, q) /\ q > availableQuantity(orders, orderList(b))) =>
              /\ ret' = Threw("InsufficientLiquidity")
              /\ UNCHANGED <<orders, bids, asks, pc>>]_vars

\* A market order has been rejected while both sides of the book held orders.
C6_Witness ==
    /\ pc = "idle"
    /\ ret.error = "InsufficientLiquidity"
    /\ bids # <<>>
    /\ asks # <<>>

\* o is ahead of c on the side a market order executes against: a strictly
\* better price, or the same price and an earlier placement.
Ahead(o, c, buy) ==
    \/ IF buy THEN orders[o].price < orders[c].price ELSE orders[o].price > orders[c].price
    \/ orders[o].price = orders[c].price /\ o < c

\* C7: a fill of executeMarketOrder goes to an order that no order with
\* remaining quantity is ahead of; when it returns with success, the quantities
\* of its trades sum to the quantity asked for, and the average price it reports
\* (totalValue / filledQuantity) is the quantity-weighted mean of the trade prices.
C7_MarketOrderFill ==
    [][/\ (pc = "market" /\ Len(trades') = Len(trades) + 1) =>
              LET t == trades'[Len(trades')]
                  c == IF isBuy THEN t.sellOrderId ELSE t.buyOrderId
              IN  \A o \in (IF isBuy THEN ActiveAsks ELSE ActiveBids) \ {c} :
                      Remaining(orders[o]) > 0 => ~Ahead(o, c, isBuy)
       /\ (pc = "market" /\ pc' = "idle") =>
              /\ totalQuantity(trades) = ret'.totalQuantity
              /\ ret'.filledQuantity = totalQuantity(trades)
              /\ ret'.filledQuantity > 0
              /\ ret'.totalValue = totalValue(trades)]_vars

Range(s) == {s[i] : i \in 1..Len(s)}
Without(s, id) == SelectSeq(s, LAMBDA x : x # id)

\* C8: cancelOrder by the owner of an active order marks exactly that order
\* cancelled and takes it out of its book; by anyone else, or on an order that
\* is filled or cancelled, it throws and leaves every order and both books alone.
C8_CancelOrder ==
    [][\A id \in OrderIdInputs, u \in Users :
          cancelOrder(id, u) =>
              IF id \in OrderIds /\ orders[id].userId = u /\ orders[id].status = "active"
              THEN /\ ret'.error = "none"
                   /\ orders' = [orders EXCEPT ![id].status = "cancelled"]
                   /\ id \in Range(bids) \cup Range(asks)
                   /\ bids' = Without(bids, id)
                   /\ asks' = Without(asks, id)
              ELSE /\ UNCHANGED <<orders, bids, asks>>
                   /\ ret'.error = IF id \notin OrderIds THEN "NotFound"
                                   ELSE IF orders[id].userId # u THEN "Unauthorized"
                                   ELSE "InvalidState"]_vars

\* An order has been cancelled by its owner while another one rests in the book.
C8_Witness ==
    /\ pc = "idle"
    /\ ret.error = "none"
    /\ \E i \in OrderIds : orders[i].status = "cancelled" /\ ret.orderId = i
    /\ \E j \in OrderIds : orders[j].status = "active"

\* C9: every stored order has a quantity that is a positive whole number of
\* contracts, a price strictly between 0 and 1, and 0 <= filled <= quantity.
C9_WellFormed ==
    \A i \in OrderIds :
        /\ orders[i].quantity > 0
        /\ orders[i].quantity % 10 = 0
        /\ orders[i].price > 0
        /\ orders[i].price < 100
        /\ 0 <= orders[i].filled
        /\ orders[i].filled <= orders[i].quantity

\* The side a requester needs, its best price and the remaining quantity there.
NeededSide(buy) == IF buy THEN ActiveAsks ELSE ActiveBids
BestPrice(buy) ==
    LET side == NeededSide(buy)
    IN  CHOOSE p \in {orders[i].price : i \in side} :
            \A i \in side : IF buy THEN p <= orders[i].price ELSE p >= orders[i].price
RECURSIVE SumRemaining(_)
SumRemaining(S) ==
    IF S = {} THEN 0
    ELSE LET i == CHOOSE x \in S : TRUE
         IN  Remaining(orders[i]) + SumRemaining(S \ {i})
DepthAtBest(buy) ==
    SumRemaining({i \in NeededSide(buy) : orders[i].price = BestPrice(buy)})

\* C10: getBestExecutionVenue selects the order book exactly when the needed
\* side is not empty, holds at least the requested quantity at its best price,
\* and that price is at least as good as the AMM's; the price it returns for
\* the book is that best price.
C10_BestVenue ==
    [][\A b \in BOOLEAN, q \in VenueQuantityInputs, amm \in AmmPricingInputs :
          GetBestExecutionVenue(b, q, amm) =>
              LET book == /\ NeededSide(b) # {}
                          /\ DepthAtBest(b) >= q
                          /\ IF b THEN BestPrice(b) <= amm.askPrice
                                  ELSE BestPrice(b) >= amm.bidPrice
              IN  /\ ret'.venue = IF book THEN "orderbook" ELSE "amm"
                  /\ ret'.venue = "orderbook" => ret'.price = BestPrice(b)]_vars

\* The levels the active orders of one side make: every price with the summed
\* remaining quantity and the number of the active orders at that price.
LevelsOf(side) ==
    {[price |-> p,
      quantity |-> SumRemaining({i \in side : orders[i].price = p}),
      orderCount |-> Cardinality({i \in side : orders[i].price = p})] :
        p \in {orders[i].price : i \in side}}

\* C11: between operations, the state getOrderBookState returns has bestBid the
\* highest active bid price, bestAsk the lowest active ask price, spread their
\* difference when both sides are occupied, and on each side one level per
\* price with the summed remaining quantity and the count of its active orders.
C11_BookState ==
    pc = "idle" =>
        LET state == getOrderBookState
        IN  /\ ActiveBids # {} => state.bestBid = BestPrice(FALSE)
            /\ ActiveAsks # {} => state.bestAsk = BestPrice(TRUE)
            /\ (ActiveBids # {} /\ ActiveAsks # {}) =>
                   state.spread = BestPrice(TRUE) - BestPrice(FALSE)
            /\ Range(state.bids) = LevelsOf(ActiveBids)
            /\ Range(state.asks) = LevelsOf(ActiveAsks)

\* The same without the best ask and the spread, which is what the code keeps.
C11_LevelsAndBestBid ==
    pc = "idle" =>
        LET state == getOrderBookState
        IN  /\ ActiveBids # {} => state.bestBid = BestPrice(FALSE)
            /\ Range(state.bids) = LevelsOf(ActiveBids)
            /\ Range(state.asks) = LevelsOf(ActiveAsks)

\* The sum of the contributions recorded in a pool.
RECURSIVE SumOver(_, _)
SumOver(providers, S) ==
    IF S = {} THEN 0
    ELSE LET x == CHOOSE y \in S : TRUE
         IN  providers[x] + SumOver(providers, S \ {x})
Contributions(p) == SumOver(p.providers, DOMAIN p.providers)

\* The pools that exist: the AMM's and the engine's under the same optionId.
Pools == {p \in {pool, enginePool} : p # NoPool}

\* C12: between calls, the totalLiquidity of a pool is not negative and the
\* contributions recorded for its providers sum to totalLiquidity minus the
\* seed MIN_LIQUIDITY.
C12_PoolInvariant ==
    Quiet => \A p \in Pools :
                 /\ p.totalLiquidity >= 0
                 /\ Contributions(p) = p.totalLiquidity - MIN_LIQUIDITY

\* The call of addLiquidity that runs its body in this step (the engine's
\* pool is updated) or returns in this step (the AMM's pool is updated).
AddRunsBody(c) == calls'[c].op = "addLiquidity" /\ calls'[c].pc = "add"
AddReturns(c) == calls[c].op = "addLiquidity" /\ calls[c].pc = "add" /\ calls'[c].op = "none"

\* The total and the provider's contribution of pool q are those of pool p
\* plus the amount.
Raised(p, q, provider, amount) ==
    /\ TotalOf(q) = TotalOf(p) + amount
    /\ HeldIn(q, provider) = HeldIn(p, provider) + amount
    /\ \A other \in Providers \ {provider} : HeldIn(q, other) = HeldIn(p, other)

\* C13: a call of addLiquidity with an amount that is zero or negative throws
\* InvalidAmount and changes the total and the contributions of neither pool;
\* with a positive amount it raises the total and the provider's contribution
\* by the amount, in the engine's pool when its body runs and in the AMM's
\* pool when it returns.
C13_AddLiquidity ==
    [][\A c \in Calls :
          /\ AddRunsBody(c) =>
                 Raised(enginePool, enginePool', calls'[c].provider,
                        IF calls'[c].amount > 0 THEN calls'[c].amount ELSE 0)
          /\ AddReturns(c) =>
                 /\ Raised(pool, pool', calls[c].provider,
                           IF calls[c].amount > 0 THEN calls[c].amount ELSE 0)
                 /\ poolRet'.error = IF calls[c].amount > 0 THEN "none" ELSE "InvalidAmount"]_vars

\* The half of C13 about positive amounts, which the code keeps.
C13_PositiveAmount ==
    [][\A c \in Calls :
          /\ (AddRunsBody(c) /\ calls'[c].amount > 0) =>
                 Raised(enginePool, enginePool', calls'[c].provider, calls'[c].amount)
          /\ (AddReturns(c) /\ calls[c].amount > 0) =>
                 /\ Raised(pool, pool', calls[c].provider, calls[c].amount)
                 /\ poolRet'.error = "none"]_vars

\* The step in which a call of removeLiquidity(provider, amount) in slot c runs
\* its body: as it is made, or once initialize() has resolved.
RemoveRunsBody(c, provider, amount) ==
    \/ initialized /\ \E wd \in BOOLEAN : removeLiquidity(c, provider, amount, wd)
    \/ /\ initialize(c)
       /\ calls[c].op = "removeLiquidity"
       /\ calls[c].provider = provider
       /\ calls[c].amount = amount

RemoveStep(c, provider, amount) ==
    \/ RemoveRunsBody(c, provider, amount)
    \/ /\ calls[c].op = "removeLiquidity"
       /\ calls[c].pc \in {"engineRemove", "remove"}
       /\ calls[c].provider = provider
       /\ calls[c].amount = amount
       /\ calls'[c] # calls[c]

\* Pool q is pool p after the withdrawal of the amount by the provider: the
\* total and the contribution are lower by the amount, and a contribution of 0
\* has no entry.
Withdrawn(p, q, provider, amount) ==
    /\ TotalOf(q) = TotalOf(p) - amount
    /\ HeldIn(q, provider) = HeldIn(p, provider) - amount
    /\ HeldIn(q, provider) = 0 => provider \notin DOMAIN q.providers

\* C15: a call of removeLiquidity(p, amount) that updates a pool lowers the
\* pool's totalLiquidity by exactly the amount, which is what addLiquidity(p,
\* amount) raised it by, so that the two restore the total; and when it brings
\* the provider's contribution to 0 the pool has no entry for the provider.
C15_RoundTrip ==
    [][\A c \in Calls, p \in Providers, a \in RemoveAmountInputs :
          RemoveStep(c, p, a) =>
              /\ pool' # pool => Withdrawn(pool, pool', p, a)
              /\ enginePool' # enginePool => Withdrawn(enginePool, enginePool', p, a)]_vars

\* The half of C15 about totalLiquidity, for the AMM's pool.
C15_AmmTotal ==
    [][\A c \in Calls, p \in Providers, a \in RemoveAmountInputs :
          (RemoveStep(c, p, a) /\ pool' # pool) =>
              TotalOf(pool') = TotalOf(pool) - a]_vars

\* C15 for the engine's pool, whose total has not gone below the seed.
C15_Engine ==
    [][\A c \in Calls, p \in Providers, a \in RemoveAmountInputs :
          (RemoveStep(c, p, a) /\ enginePool' # enginePool
                               /\ TotalOf(enginePool) - a >= MIN_LIQUIDITY) =>
              Withdrawn(enginePool, enginePool', p, a)]_vars

\* C16: whatever the interleaving of the calls at their awaits, no provider's
\* contribution in the AMM's pool or in the engine's pool is negative, and the
\* totalLiquidity of neither is below the seed.
C16_Serialized ==
    \A p \in Pools :
        /\ TotalOf(p) >= MIN_LIQUIDITY
        /\ \A provider \in Providers : HeldIn(p, provider) >= 0

\* C16 for calls made one at a time with positive amounts: no step of a call of
\* removeLiquidity leaves a negative contribution or a total below the seed in
\* a pool that had neither.
C16_OneAtATime ==
    [][\A c \in Calls, p \in Providers, a \in RemoveAmountInputs :
          (RemoveStep(c, p, a) /\ C16_Serialized) => C16_Serialized']_vars

\* C17: when updateOrder throws because the replacement is rejected as an
\* invalid order, the order it was called on is as it was before the call
\* (active, with its price, quantity and filled amount) and so are both books.
C17_UpdateRollback ==
    [][\A id \in OrderIdInputs, u \in Users, in \in OrderInputs :
          (updateOrder(id, u, in[1], in[2]) /\ ret' = Threw("InvalidOrder")) =>
              /\ orders'[id] = orders[id]
              /\ orders'[id].status = "active"
              /\ id \in Range(bids') \cup Range(asks')
              /\ UNCHANGED <<bids, asks>>]_vars

\* What holds in its place: the order has been cancelled and taken out of its
\* book, and nothing else has changed.
C17_CancelledInstead ==
    [][\A id \in OrderIdInputs, u \in Users, in \in OrderInputs :
          (updateOrder(id, u, in[1], in[2]) /\ ret' = Threw("InvalidOrder")) =>
              /\ orders' = [orders EXCEPT ![id].status = "cancelled"]
              /\ bids' = Without(bids, id)
              /\ asks' = Without(asks, id)]_vars

\* A step of a call of getPrice in slot c: its body, with the engine's
\* calculatePrice, or its resumption after the await.
GetPriceStep(c) ==
    \/ initialized /\ \E d \in DetailsInputs : getPrice(c, d)
    \/ initialize(c) /\ calls[c].op = "getPrice"
    \/ getPriceResume(c)

\* C18: computing a quote leaves every pool that exists as it is: price,
\* totalLiquidity, buyVolume, sellVolume and providers of the AMM's pool, of the
\* engine's pool and of the pool the engine keeps under its derived key.
C18_QuoteFrame ==
    [][\A c \in Calls :
          GetPriceStep(c) =>
              /\ pool # NoPool => pool' = pool
              /\ enginePool # NoPool => enginePool' = enginePool
              /\ quotePool # NoPool => quotePool' = quotePool]_vars

\* What a quote does leave alone: everything but the price.
C18_AllButPrice ==
    [][\A c \in Calls :
          GetPriceStep(c) =>
              /\ pool # NoPool => pool' = [pool EXCEPT !.price = pool'.price]
              /\ enginePool' = enginePool
              /\ quotePool # NoPool => quotePool' = [quotePool EXCEPT !.price = quotePool'.price]]_vars

\* The quotes that have been returned: by the engine's calculatePrice to the
\* calls that wait for it or for the trade it is part of, and by the AMM's
\* getPrice.
QuotesReturned ==
    {[bidPrice |-> calls[c].quote.bidPrice, askPrice |-> calls[c].quote.askPrice] :
        c \in {k \in Calls : calls[k].pc \in {"price", "engineTrade", "trade"}}}
    \cup (IF poolRet.op = "getPrice" /\ poolRet.error = "none"
          THEN {[bidPrice |-> poolRet.bidPrice, askPrice |-> poolRet.askPrice]}
          ELSE {})

C19_InRange ==
    \A q \in QuotesReturned :
        /\ 0 <= q.bidPrice /\ q.bidPrice <= 100000
        /\ 0 <= q.askPrice /\ q.askPrice <= 100000

\* The results the engine's executeTrade has returned to the calls that wait
\* for it, each with the side of its trade.
TradesReturned ==
    {[isBuy |-> calls[c].isBuy, result |-> calls[c].result] :
        c \in {k \in Calls : calls[k].pc = "trade"}}

\* C20: the fee of a trade is executionPrice x amount x 0.004, the execution
\* price being ask x (1 + impact) for a buy and bid x (1 - impact) for a sell.
C20_FeeOnExecutionPrice ==
    \A t \in TradesReturned :
        LET r == t.result
            impact == Div(r.priceImpact, 100)
        IN  /\ r.executionPrice = IF t.isBuy
                                  THEN r.askPrice + Scale(r.askPrice, impact)
                                  ELSE r.bidPrice - Scale(r.bidPrice, impact)
            /\ r.fee = Div(r.amount * r.executionPrice * 4, 1000)

\* What the code charges: the quoted ask or bid x amount x 0.004.
C20_FeeOnQuotedPrice ==
    \A t \in TradesReturned :
        LET r == t.result
            impact == Div(r.priceImpact, 100)
        IN  /\ r.executionPrice = IF t.isBuy
                                  THEN r.askPrice + Scale(r.askPrice, impact)
                                  ELSE r.bidPrice - Scale(r.bidPrice, impact)
            /\ r.fee = Div(r.amount * (IF t.isBuy THEN r.askPrice ELSE r.bidPrice) * 4, 1000)

C21_ImpactAndVolume ==
    [][\A c \in Calls :
          /\ (executeTradeEngineResume(c) /\ calls[c].isBuy) =>
                 /\ calls'[c].result.priceImpact <= 15 * 100000
                 /\ enginePool'.buyVolume = enginePool.buyVolume + calls[c].amount
          /\ (executeTradeResume(c) /\ calls[c].isBuy) =>
                 /\ pool'.buyVolume = pool.buyVolume + calls[c].amount
                 /\ pool'.price <= calls[c].quote.askPrice]_vars

\* C30: between calls, the AMM's pool and the engine's pool of the contract
\* show the same totalLiquidity and the same contribution for every provider.
C30_PoolsInStep ==
    Quiet =>
        /\ TotalOf(pool) = TotalOf(enginePool)
        /\ \A provider \in Providers : HeldIn(pool, provider) = HeldIn(enginePool, provider)

\* C30 for addLiquidity alone: when a call of addLiquidity returns, the AMM's
\* pool catches up with the engine's, which was ahead of it by the amount since
\* the body ran.
C30_AddInStep ==
    [][\A c \in Calls :
          (AddReturns(c) /\ TotalOf(pool) + calls[c].amount = TotalOf(enginePool)
                         /\ TotalOf(pool) # 0) =>
              TotalOf(pool') = TotalOf(enginePool')]_vars

\* A call of PooledLiquidity.removeLiquidity throws in this step.
PooledRemoveThrows ==
    /\ \/ \E p \in Providers, a \in PooledAmountInputs : pooledRemoveLiquidity(p, a)
       \/ pooledInitialize
    /\ pooledCall'.op = "none"
    /\ pooledRet'.op = "removeLiquidity"
    /\ pooledRet'.error # "none"

\* C27: whenever no call of the allocator or of the AMM is in progress, the
\* contribution the allocator records for a provider is the provider's
\* contribution in the pool of the contract (the one pool there is); and a call
\* of removeLiquidity that throws leaves the allocator's total and
\* contributions as they were.
C27_AllocatorConsistent ==
    [][/\ (pooledCall'.op = "none" /\ Quiet') =>
              \A p \in Providers : pooledContribution(pooled', p) = HeldIn(pool', p)
       /\ PooledRemoveThrows =>
              /\ pooled'.totalLiquidity = pooled.totalLiquidity
              /\ pooled'.providers = pooled.providers]_vars

\* What does hold of a call of removeLiquidity that throws: when it is rejected
\* by the validation or for want of contribution, the allocator is unchanged.
C27_RejectedUnchanged ==
    [][(PooledRemoveThrows /\ pooledRet'.error \in {"InvalidAmount", "InsufficientLiquidity"}) =>
              /\ pooled'.totalLiquidity = pooled.totalLiquidity
              /\ pooled'.providers = pooled.providers]_vars

-----------------------------------------------------------------------------
(* The pricing models.                                                     *)

\* The payoff at expiry of an option on a spot S with strike K.
expiryPayoff(S, K, optionType) ==
    IF optionType = "call" THEN (IF S > K THEN 10000 ELSE 0)
    ELSE (IF S < K THEN 10000 ELSE 0)

\* The last call went to the model the selection policy picks for its params.
PolicyPriced ==
    pricingRet.model # "none" /\ pricingRet.model = createModel(pricingParams)

\* C22: with timeToExpiry = 0 the price returned by the model the selection
\* policy picks is exactly 0 or 1, and it is 1 if and only if spot > strike
\* for a call and spot < strike for a put.
C22_PayoffAtExpiry ==
    (PolicyPriced /\ pricingParams.timeToExpiry = 0) =>
        pricingRet.midPrice =
            <<expiryPayoff(pricingParams.currentProbability,
                           pricingParams.strikeProbability, pricingParams.optionType)>>

\* C22 for the closed-form model called at expiry, which the policy does not
\* pick there: mid, bid and ask are the payoff.
C22_ClosedFormAtExpiry ==
    (pricingRet.model = "BlackScholesBinaryModel" /\ pricingParams.timeToExpiry = 0) =>
        LET payoff == <<expiryPayoff(pricingParams.currentProbability,
                                     pricingParams.strikeProbability,
                                     pricingParams.optionType)>>
        IN  /\ pricingRet.midPrice = payoff
            /\ pricingRet.bidPrice = payoff
            /\ pricingRet.askPrice = payoff

\* The spot of the last call is below 0.001 or above 0.999.
NearBoundary ==
    pricingParams.currentProbability < 10 \/ pricingParams.currentProbability > 9990

\* C23: for timeToExpiry > 0 and a spot below 0.001 or above 0.999 the
\* closed-form model returns the fixed quote and does not evaluate d1 and d2,
\* whether the option is a call or a put.
C23_NearBoundaryGuard ==
    (/\ pricingRet.model = "BlackScholesBinaryModel"
     /\ pricingParams.timeToExpiry > 0
     /\ NearBoundary) => pricingRet = fixedQuote

\* C23 for the two cases the guards of the code cover: a call on a spot below
\* 0.001 and a put on a spot above 0.999.
C23_GuardedCases ==
    (/\ pricingRet.model = "BlackScholesBinaryModel"
     /\ pricingParams.timeToExpiry > 0
     /\ \/ pricingParams.currentProbability < 10 /\ pricingParams.optionType = "call"
        \/ pricingParams.currentProbability > 9990 /\ pricingParams.optionType = "put")
    => pricingRet = fixedQuote

\* The reference backward induction: the value of the node reached by j moves
\* of which i were down; a terminal node pays 1 iff its spot is above the
\* strike for a call and iff it is not for a put.  Where u = d every terminal
\* spot is the same and the weight of the up move is immaterial (0 here).
RECURSIVE referenceValue(_, _, _, _, _, _, _)
referenceValue(S, K, optionType, f, steps, i, j) ==
    IF j = steps
    THEN (IF (finalProbability(S, f, steps, i) > K) = (optionType = "call")
          THEN 10000 ELSE 0)
    ELSE LET w == IF f.p = NaN THEN 0 ELSE f.p[1]
             up == referenceValue(S, K, optionType, f, steps, i, j + 1)
             down == referenceValue(S, K, optionType, f, steps, i + 1, j + 1)
         IN  Div(f.discount * Div(w * up + (10000 - w) * down, 10000), 10000)

referenceInduction(params) ==
    LET steps == Max(5, Min(50, ceilDays(params.timeToExpiry)))
        f == latticeFactors(steps, params.timeToExpiry, params.volatility,
                            params.riskFreeRate)
    IN  referenceValue(params.currentProbability, params.strikeProbability,
                       params.optionType, f, steps, 0, 0)

\* C24: the mid price of the tree model is the root value of the reference
\* backward induction over the lattice, a number between 0 and 1.
C24_TreeIsInduction ==
    pricingRet.model = "BinomialModel" =>
        /\ pricingRet.midPrice = <<referenceInduction(pricingParams)>>
        /\ pricingRet.midPrice[1] >= 0
        /\ pricingRet.midPrice[1] <= 10000

\* What the tree model returns instead: the induction reads cells of the
\* lattice that were never written, so mid, bid and ask are NaN for every
\* parameter.
C24_TreeIsNaN ==
    pricingRet.model = "BinomialModel" =>
        /\ pricingRet.midPrice = NaN
        /\ pricingRet.bidPrice = NaN
        /\ pricingRet.askPrice = NaN

\* The reference induction itself stays between 0 and 1.
C24_ReferenceInRange ==
    pricingRet.model = "BinomialModel" =>
        /\ referenceInduction(pricingParams) >= 0
        /\ referenceInduction(pricingParams) <= 10000

-----------------------------------------------------------------------------
(* VolatilityService.                                                      *)

\* What a call of getDynamicVolatility does when the entry of the cache counts
\* as recent: it returns the cached base value under the term structure and
\* neither waits for calculateVolatility nor touches the cache.
UsesCache(c, timeToExpiry) ==
    /\ volRet' = [op |-> "getDynamicVolatility",
                  value |-> applyTermStructure(volatilityCache[1].value, timeToExpiry)]
    /\ UNCHANGED <<volatilityCache, cacheWritten, volCalls>>

\* A call that recomputes replaces the entry when calculateVolatility resolves.
Replaces ==
    \A c \in VolCallIds, v \in EstimateInputs :
        (getDynamicVolatilityResume(c, v) \/ updateVolatilityEstimateResume(c, v)) =>
            /\ volatilityCache' # NoEntry
            /\ volatilityCache'[1].value = v
            /\ cacheWritten'.at = clock

\* C25: a call of getDynamicVolatility made less than an hour after the base
\* estimate was cached uses the cached value without recomputing; a call made
\* later waits for calculateVolatility, and so does every
\* updateVolatilityEstimate, and the estimate then replaces the entry.
C25_VolatilityCache ==
    [][/\ \A c \in VolCallIds, t \in DaysToExpiryInputs :
              getDynamicVolatility(c, t) =>
                  IF volatilityCache # NoEntry /\ clock - cacheWritten.at < CACHE_VALIDITY
                  THEN UsesCache(c, t)
                  ELSE volCalls'[c].op = "getDynamicVolatility"
       /\ \A c \in VolCallIds :
              updateVolatilityEstimate(c) => volCalls'[c].op = "updateVolatilityEstimate"
       /\ Replaces]_vars

\* C25 with the hour counted from the timestamp of the entry, which is the
\* start of the call that computed it and not the moment it was cached.
C25_FromTimestamp ==
    [][/\ \A c \in VolCallIds, t \in DaysToExpiryInputs :
              getDynamicVolatility(c, t) =>
                  IF /\ volatilityCache # NoEntry
                     /\ clock - volatilityCache[1].timestamp < CACHE_VALIDITY
                  THEN UsesCache(c, t)
                  ELSE volCalls'[c].op = "getDynamicVolatility"
       /\ \A c \in VolCallIds :
              updateVolatilityEstimate(c) => volCalls'[c].op = "updateVolatilityEstimate"
       /\ Replaces]_vars

\* C29: in every interleaving of the calls, the timestamp of the entry of the
\* cache never decreases and an entry is never overwritten by the estimate of
\* a call that began earlier than the call that wrote it.
C29_CacheMonotonic ==
    [][(volatilityCache # NoEntry /\ <<volatilityCache, cacheWritten>>' # <<volatilityCache, cacheWritten>>) =>
           /\ volatilityCache'[1].timestamp >= volatilityCache[1].timestamp
           /\ cacheWritten'.started >= cacheWritten.started]_vars

\* C29 for the writes of updateVolatilityEstimate alone: the timestamp it sets
\* is the time of the write and never lies before the one it replaces.
C29_UpdateTimestamp ==
    [][\A c \in VolCallIds, v \in EstimateInputs :
           (updateVolatilityEstimateResume(c, v) /\ volatilityCache # NoEntry) =>
               volatilityCache'[1].timestamp >= volatilityCache[1].timestamp]_vars

-----------------------------------------------------------------------------
(* MarketUpdater.                                                          *)

\* No pending fetch has waited longer than the timeout.
FetchesBounded ==
    /\ \A k \in ChainIds :
           chains[k].pc \in {"initial", "fetch"} => chains[k].waited <= FETCH_TIMEOUT
    /\ refresh.pc = "fetch" => refresh.waited <= FETCH_TIMEOUT

\* A step in which a fetch of a chain fails keeps the data known so far and
\* the listeners as they are and sets the next timer of the chain.
ChainFailsSafe(k) ==
    /\ lastFetchedData # NoData => UNCHANGED lastFetchedData
    /\ UNCHANGED notified
    /\ chains'[k].pc = "timer"

\* C26: every fetch of polling and of a forced refresh completes or is
\* abandoned within the timeout, and a fetch that fails or times out leaves
\* the last-known data unchanged, notifies no listener and does not stop the
\* later polls.
C26_BoundedFailSafe ==
    [][/\ FetchesBounded'
       /\ \A k \in ChainIds : startPollingFailed(k) => ChainFailsSafe(k)
       /\ \A k \in ChainIds : updateFnFailed(k) => ChainFailsSafe(k)
       /\ forceRefreshFailed => UNCHANGED <<lastFetchedData, notified, chains>>]_vars

\* C26 for the fetches of updateFn and the failure of forceRefresh: the polls
\* are bounded by the timeout and fail safe, and a forced refresh that fails
\* changes nothing.
C26_PollsFailSafe ==
    [][/\ \A k \in ChainIds :
              chains'[k].pc \in {"initial", "fetch"} => chains'[k].waited <= FETCH_TIMEOUT
       /\ \A k \in ChainIds : updateFnFailed(k) => ChainFailsSafe(k)
       /\ forceRefreshFailed => UNCHANGED <<lastFetchedData, notified, chains>>]_vars

\* The chains with a timer set or a fetch pending.
Active == {k \in ChainIds : chains[k].pc \in {"timer", "fetch"}}

\* C28: a chain begun before the last stopPolling returned, the one at the
\* start of startPolling included, does not fetch or notify again, and at most
\* one chain is active.
C28_StopPolling ==
    [][/\ \A k \in ChainIds :
              (updateFn(k) /\ chains'[k].pc = "fetch") => k \notin superseded
       /\ \A k \in ChainIds, data \in FetchedData :
              (updateFnFetched(k, data) /\ notified'.by = "updateFn"
                   /\ data.probability # lastFetchedData[1].probability)
                  => k \notin superseded
       /\ Cardinality(Active') <= 1]_vars

\* What stopPolling does instead: updateIntervals is never set, so it changes
\* nothing and isPolling stays set once a chain has begun to poll.
C28_StopPollingIdle ==
    /\ ~updateIntervals
    /\ Active # {} => isPolling
    /\ \A k \in ChainIds : chains[k].pc # "ended"

====
